---- MODULE Spec2Model ----
(***************************************************************************)
(* A model of the Markdown-to-HTML conversion pipeline of vcu-qa-analyzer: *)
(* MermaidProcessor and ImageProcessor (src/src/processors) and            *)
(* HTMLConverter (src/src/core/converter.py).                              *)
(*                                                                         *)
(* Text is a sequence of tokens.  A token is either one character of the   *)
(* source text (a newline, a bracket, a slash, a letter) or a literal the  *)
(* regular expressions of the code treat as a unit (the fence of three     *)
(* backticks, "mermaid", "http:", "data:").  Backticks occur in the        *)
(* modelled texts only in runs of three, so matching on tokens agrees with *)
(* matching on characters.                                                 *)
(***************************************************************************)
EXTENDS Integers, Sequences, FiniteSets, TLC

VARIABLES
    mText, mCall, mRet,      \* a call of MermaidProcessor: argument, method, return value
    fs, existsRaises,        \* the file system and the interpreter (see path_probe)
    iText, iCall, iRet,      \* a call of ImageProcessor: argument, method, return value
    cCall,                   \* a call of HTMLConverter: the method and its arguments
    cPc,                     \* "start", or "done" when the call has returned or raised
    cResults,                \* the ConversionResults made so far
    cRaised,                 \* [raised, exc]: the exception that left the call
    cHistory,                \* per convert: source, fault, stages entered, files before
    fs0,                     \* the file system when the call started
    tCall, tArgs, tRet,      \* a call of a theme or of the Markdown transform
    pCall,                   \* the call of a BatchProcessor that is running
    pPc,                     \* where its main thread is
    pFiles,                  \* md_files
    pIndex,                  \* the number of files its loop has gone through
    pTasks,                  \* the futures of the executor, in order of submission
    pYielded,                \* the futures as_completed has yielded
    pResults,                \* self.results
    pExc,                    \* the exception that leaves the call
    pBefore,                 \* self.results when the call started
    sPc,                     \* the bootstrap script: not run yet, or running
    page,                    \* the page the bootstrap script runs in
    rCall, rRet,             \* a call of ReportGenerator._generate_html
    stats,                   \* StatsTracker.stats
    file_records,            \* StatsTracker.file_records
    tracked,                 \* the results tracked since the last reset
    xCall,                   \* run_conversion: args and the files found
    xPc,                     \* where run_conversion is
    xIndex,                  \* the number of files its loop has gone through
    success_count,           \* its local success_count
    xExit                    \* the status it returns

mermaidVars == <<mText, mCall, mRet>>
osVars == <<fs, existsRaises>>
imageVars == <<iText, iCall, iRet>>

convVars == <<cCall, cPc, cResults, cRaised, cHistory, fs0>>

themeVars == <<tCall, tArgs, tRet>>

procVars == <<pCall, pPc, pFiles, pIndex, pTasks, pYielded, pResults, pExc>>

scriptVars == <<sPc, page>>

reportVars == <<rCall, rRet>>

statsVars == <<stats, file_records, tracked>>

cliVars == <<xCall, xPc, xIndex, success_count, xExit>>

laterVars == <<pBefore, scriptVars, reportVars, statsVars, cliVars>>

vars == <<mermaidVars, osVars, imageVars, convVars, themeVars, procVars,
          laterVars>>

----------------------------------------------------------------------------
(* Bounds of the model. *)

\* The Markdown texts handed to MermaidProcessor are built of at most this
\* many pieces of MermaidPieces.
MaxMermaidPieces == 5

\* A scenario of ImageProcessor is a text of k pieces of ImagePieces and a
\* file system of at most MaxImageScenario - k entries.
MaxImageScenario == 3

\* convert_batch is handed at most this many source paths.
MaxBatch == 2

----------------------------------------------------------------------------
(* Tokens. *)

\* F stands for a run of three backticks, the fence of a code block.
F == "[fence]"
M == "mermaid"
NL == "\n"
A == "a"
DivOpen == "<div class=\"mermaid\">"
DivClose == "</div>"

\* The first index k' >= k with s[k'] = x, 0 when there is none.
RECURSIVE FirstIndexOf(_, _, _)
FirstIndexOf(s, x, k) ==
    IF k > Len(s) THEN 0 ELSE IF s[k] = x THEN k ELSE FirstIndexOf(s, x, k + 1)

\* The element of a singleton.  {e(x) : x \in {v}} names the value v as x
\* in e, v being computed once, as a local variable of the code is.
TheValue(S) == CHOOSE v \in S : TRUE

\* The concatenation of a sequence of token sequences.
RECURSIVE Concat(_)
Concat(ss) == IF ss = <<>> THEN <<>> ELSE Head(ss) \o Concat(Tail(ss))

\* The token sequences built of at most k pieces of P.
RECURSIVE TextsOf(_, _)
TextsOf(P, k) ==
    IF k = 0 THEN {<<>>}
    ELSE LET T == TextsOf(P, k - 1) IN T \cup {t \o p : t \in T, p \in P}

----------------------------------------------------------------------------
(* MermaidProcessor (src/src/processors/mermaid_processor.py). *)

\* self.pattern = F mermaid \n (.*?) \n F under re.DOTALL: the end of a
\* match that opened before j is the first "\n" F at or after j (the
\* group is non-greedy and '.' matches newlines); 0 when there is none.
RECURSIVE mermaid_close(_, _)
mermaid_close(s, j) ==
    IF j + 1 > Len(s) THEN 0
    ELSE IF s[j] = NL /\ s[j + 1] = F THEN j
    ELSE mermaid_close(s, j + 1)

\* The leftmost match of the pattern at or after pos: <<i, j>>, the match
\* being s[i .. j+1] and group(1) being s[i+3 .. j-1]; <<0, 0>> when the
\* pattern does not match.
RECURSIVE mermaid_search(_, _)
mermaid_search(s, pos) ==
    IF pos + 2 > Len(s) THEN <<0, 0>>
    ELSE IF s[pos] = F /\ s[pos + 1] = M /\ s[pos + 2] = NL
            /\ mermaid_close(s, pos + 3) # 0
         THEN <<pos, mermaid_close(s, pos + 3)>>
    ELSE mermaid_search(s, pos + 1)

\* replace_mermaid: f'<div class="mermaid">\n{mermaid_code}\n</div>'
replace_mermaid(mermaid_code) ==
    <<DivOpen, NL>> \o mermaid_code \o <<NL, DivClose>>

\* re.sub(self.pattern, replace_mermaid, content, flags=re.DOTALL) from
\* position pos on: the matches are taken left to right, not overlapping.
RECURSIVE mermaid_sub(_, _)
mermaid_sub(s, pos) ==
    TheValue({
        IF m[1] = 0 THEN SubSeq(s, pos, Len(s))
        ELSE SubSeq(s, pos, m[1] - 1)
             \o replace_mermaid(SubSeq(s, m[1] + 3, m[2] - 1))
             \o mermaid_sub(s, m[2] + 2)
        : m \in {mermaid_search(s, pos)} })

MermaidProcessor_process(content) ==
    TheValue({mermaid_sub(s, 1) : s \in {content}})

\* re.findall(self.pattern, content, flags=re.DOTALL): group(1) of every match.
RECURSIVE mermaid_findall(_, _)
mermaid_findall(s, pos) ==
    TheValue({
        IF m[1] = 0 THEN <<>>
        ELSE <<SubSeq(s, m[1] + 3, m[2] - 1)>> \o mermaid_findall(s, m[2] + 2)
        : m \in {mermaid_search(s, pos)} })

extract_diagrams(content) ==
    TheValue({mermaid_findall(s, 1) : s \in {content}})

has_mermaid(content) ==
    TheValue({mermaid_search(s, 1)[1] # 0 : s \in {content}})

----------------------------------------------------------------------------
(* Paths and the file system, as pathlib and the operating system treat    *)
(* them.  A path string is a sequence of tokens, "/" being the separator;  *)
(* a name is a non-empty sequence of tokens without "/"; a Path is whether *)
(* it is absolute and its names; a location is the sequence of names from  *)
(* the root.                                                               *)

RECURSIVE SplitNames(_)
SplitNames(str) ==
    LET k == FirstIndexOf(str, "/", 1) IN
    IF str = <<>> THEN <<>>
    ELSE IF k = 0 THEN <<str>>
    ELSE (IF k = 1 THEN <<>> ELSE <<SubSeq(str, 1, k - 1)>>)
         \o SplitNames(SubSeq(str, k + 1, Len(str)))

\* Path(str)
PathOf(str) ==
    [abs |-> str # <<>> /\ str[1] = "/", parts |-> SplitNames(str)]

\* base / str: an absolute right operand replaces the left one.
JoinPath(base, str) ==
    LET p == PathOf(str) IN
    IF p.abs THEN p ELSE [abs |-> base.abs, parts |-> base.parts \o p.parts]

\* Path.name: the last name, the empty string when there is none.
NameOf(p) == IF p.parts = <<>> THEN <<>> ELSE p.parts[Len(p.parts)]

\* str.lstrip('/')
RECURSIVE lstrip_slash(_)
lstrip_slash(str) ==
    IF str # <<>> /\ str[1] = "/" THEN lstrip_slash(Tail(str)) ELSE str

\* The working directory of the process and the directory of the Markdown
\* source; both exist.
Cwd == <<<<"cwd">>>>
BaseDir == [abs |-> TRUE, parts |-> <<<<"base">>>>]

\* The location the operating system resolves a path to.
LocationOf(p) == IF p.abs THEN p.parts ELSE Cwd \o p.parts

IsPrefix(a, b) == Len(a) <= Len(b) /\ SubSeq(b, 1, Len(a)) = a

\* LongName stands for a run of more than NAME_MAX (255) characters without
\* a slash: stat() on a path with such a name fails with ENAMETOOLONG.
LongName == "<long name>"

name_too_long(p) ==
    \E k \in 1..Len(p.parts) : \E n \in 1..Len(p.parts[k]) : p.parts[k][n] = LongName

\* os is the environment of a call: os.files is a function from the
\* locations that hold an entry to the entry, [kind, data], kind being
\* "file", "dir" or "unreadable" (a file that open() refuses); a location
\* that leads to an entry is a directory.  os.exists_raises is whether
\* Path.exists() of the interpreter re-raises the OSError of stat() that is
\* not ENOENT, ENOTDIR, EBADF or ELOOP (pathlib up to Python 3.12 does,
\* os.path.exists of later versions returns False).
\* Path.exists(): "yes", "no" or "raise".
path_probe(p, os) ==
    LET loc == LocationOf(p) IN
    IF name_too_long(p)
    THEN (IF os.exists_raises THEN "raise" ELSE "no")
    ELSE IF \/ \E e \in DOMAIN os.files : IsPrefix(loc, e)
            \/ IsPrefix(loc, Cwd)
            \/ IsPrefix(loc, LocationOf(BaseDir))
         THEN "yes" ELSE "no"

path_exists(p, os) == path_probe(p, os) = "yes"

\* str(path)
RECURSIVE JoinNames(_)
JoinNames(parts) ==
    IF parts = <<>> THEN <<>>
    ELSE IF Len(parts) = 1 THEN parts[1]
    ELSE parts[1] \o <<"/">> \o JoinNames(Tail(parts))

PathStr(p) ==
    IF p.parts = <<>> THEN (IF p.abs THEN <<"/">> ELSE <<".">>)
    ELSE (IF p.abs THEN <<"/">> ELSE <<>>) \o JoinNames(p.parts)

\* str(e) of the OSError a system call on path p raises
OSErrorStr(what, p) == <<what>> \o <<": '">> \o PathStr(p) \o <<"'">>

\* open(file_path, 'rb') succeeds
can_open(p, os) ==
    /\ LocationOf(p) \in DOMAIN os.files
    /\ os.files[LocationOf(p)].kind = "file"

----------------------------------------------------------------------------
(* ImageProcessor (src/src/processors/image_processor.py). *)

\* self.supported_formats
supported_formats ==
    [x \in {".png", ".jpg", ".jpeg", ".gif", ".bmp", ".webp", ".svg"} |->
        CASE x = ".png" -> "image/png"
          [] x = ".jpg" -> "image/jpeg"
          [] x = ".jpeg" -> "image/jpeg"
          [] x = ".gif" -> "image/gif"
          [] x = ".bmp" -> "image/bmp"
          [] x = ".webp" -> "image/webp"
          [] x = ".svg" -> "image/svg+xml"]

\* The extensions of the modelled names; an extension is one token.
Extensions ==
    {".png", ".jpg", ".jpeg", ".gif", ".bmp", ".webp", ".svg", ".JPG", ".md", ".html"}

\* str.lower() of an extension
lower(x) == IF x = ".JPG" THEN ".jpg" ELSE x

\* Path.suffix: the last extension of the name, if the name does not start
\* with it.
suffix(p) ==
    LET name == NameOf(p) IN
    IF Len(name) >= 2 /\ name[Len(name)] \in Extensions
    THEN name[Len(name)] ELSE ""

\* The base64 alphabet.
B64Chars ==
    <<"A", "B", "C", "D", "E", "F", "G", "H", "I", "J", "K", "L", "M",
      "N", "O", "P", "Q", "R", "S", "T", "U", "V", "W", "X", "Y", "Z",
      "a", "b", "c", "d", "e", "f", "g", "h", "i", "j", "k", "l", "m",
      "n", "o", "p", "q", "r", "s", "t", "u", "v", "w", "x", "y", "z",
      "0", "1", "2", "3", "4", "5", "6", "7", "8", "9", "+", "/">>

\* base64.b64encode(img_data).decode('utf-8'), img_data a sequence of bytes
\* 0..255: three bytes give four characters, the last group is padded.
RECURSIVE b64encode(_)
b64encode(d) ==
    IF d = <<>> THEN <<>>
    ELSE IF Len(d) = 1 THEN
        <<B64Chars[(d[1] \div 4) + 1], B64Chars[((d[1] % 4) * 16) + 1], "=", "=">>
    ELSE IF Len(d) = 2 THEN
        <<B64Chars[(d[1] \div 4) + 1],
          B64Chars[((d[1] % 4) * 16) + (d[2] \div 16) + 1],
          B64Chars[((d[2] % 16) * 4) + 1], "=">>
    ELSE
        <<B64Chars[(d[1] \div 4) + 1],
          B64Chars[((d[1] % 4) * 16) + (d[2] \div 16) + 1],
          B64Chars[((d[2] % 16) * 4) + (d[3] \div 64) + 1],
          B64Chars[(d[3] % 64) + 1]>>
        \o b64encode(SubSeq(d, 4, Len(d)))

\* A _to_base64 that returns the path of the file instead of a data: URL.
to_path_reference(file_path, os) ==
    IF can_open(file_path, os)
    THEN [ok |-> TRUE, url |-> PathStr(file_path)]
    ELSE [ok |-> FALSE, url |-> <<>>]

\* _to_base64: [ok, url]; ok is FALSE for the None the except clause
\* returns when open() or read() raises.
to_base64(file_path, os) ==
    LET mime_type ==
            IF lower(suffix(file_path)) \in DOMAIN supported_formats
            THEN supported_formats[lower(suffix(file_path))]
            ELSE "image/png"
    IN IF can_open(file_path, os)
       THEN [ok |-> TRUE,
             url |-> <<"data:", mime_type, ";base64,">>
                     \o b64encode(os.files[LocationOf(file_path)].data)]
       ELSE [ok |-> FALSE, url |-> <<>>]

\* common_dirs
common_dirs == <<"images", "img", "assets", "static", "media">>

\* path_attempts
path_attempts(image_path, base_dir) ==
    << PathOf(image_path),
       JoinPath(base_dir, image_path),
       JoinPath(base_dir, NameOf(PathOf(image_path))),
       JoinPath(base_dir, lstrip_slash(image_path)) >>

\* img_file of the loop over common_dirs
common_file(image_path, base_dir, k) ==
    JoinPath(JoinPath(base_dir, <<common_dirs[k]>>), NameOf(PathOf(image_path)))

\* The loop over path_attempts from k on: the first k' >= k whose path
\* exists, 0 when none does, -1 when exists() raises before one is found.
RECURSIVE first_existing(_, _, _)
first_existing(paths, k, os) ==
    IF k > Len(paths) THEN 0
    ELSE IF path_probe(paths[k], os) = "raise" THEN -1
    ELSE IF path_probe(paths[k], os) = "yes" THEN k
    ELSE first_existing(paths, k + 1, os)

\* The loop over common_dirs from k on: the first k' with img_dir and
\* img_file existing, 0 when there is none, -1 when exists() raises.
RECURSIVE first_common(_, _, _, _)
first_common(image_path, base_dir, k, os) ==
    LET img_dir == JoinPath(base_dir, <<common_dirs[k]>>)
        img_file == common_file(image_path, base_dir, k)
    IN IF k > Len(common_dirs) THEN 0
       ELSE IF path_probe(img_dir, os) = "raise" THEN -1
       ELSE IF path_probe(img_dir, os) = "no"
            THEN first_common(image_path, base_dir, k + 1, os)
       ELSE IF path_probe(img_file, os) = "raise" THEN -1
       ELSE IF path_probe(img_file, os) = "yes" THEN k
       ELSE first_common(image_path, base_dir, k + 1, os)

\* _find_image_file: [found, path, raised]; found is FALSE for None, raised
\* is TRUE when an exists() raises (nothing in the method catches it).
find_image_file(image_path, base_dir, os) ==
    TheValue({
        TheValue({
            IF k > 0 THEN [found |-> TRUE, path |-> attempts[k], raised |-> FALSE]
            ELSE IF k < 0
            THEN [found |-> FALSE, path |-> PathOf(<<>>), raised |-> TRUE]
            ELSE TheValue({
                IF c > 0
                THEN [found |-> TRUE, path |-> common_file(image_path, base_dir, c),
                      raised |-> FALSE]
                ELSE [found |-> FALSE, path |-> PathOf(<<>>), raised |-> c < 0]
                : c \in {first_common(image_path, base_dir, 1, os)} })
            : k \in {first_existing(attempts, 1, os)} })
        : attempts \in {path_attempts(image_path, base_dir)} })

\* The paths _find_image_file calls exists() on, in order.
RECURSIVE attempt_stats(_, _, _)
attempt_stats(paths, k, os) ==
    IF k > Len(paths) THEN <<>>
    ELSE IF path_probe(paths[k], os) = "no"
         THEN <<paths[k]>> \o attempt_stats(paths, k + 1, os)
    ELSE <<paths[k]>>

RECURSIVE common_stats(_, _, _, _)
common_stats(image_path, base_dir, k, os) ==
    LET img_dir == JoinPath(base_dir, <<common_dirs[k]>>)
        img_file == common_file(image_path, base_dir, k)
    IN IF k > Len(common_dirs) THEN <<>>
       ELSE IF path_probe(img_dir, os) = "raise" THEN <<img_dir>>
       ELSE IF path_probe(img_dir, os) = "no"
            THEN <<img_dir>> \o common_stats(image_path, base_dir, k + 1, os)
       ELSE IF path_probe(img_file, os) = "no"
            THEN <<img_dir, img_file>> \o common_stats(image_path, base_dir, k + 1, os)
       ELSE <<img_dir, img_file>>

find_image_stats(image_path, base_dir, os) ==
    TheValue({
        IF first_existing(attempts, 1, os) # 0 THEN attempt_stats(attempts, 1, os)
        ELSE attempts \o common_stats(image_path, base_dir, 1, os)
        : attempts \in {path_attempts(image_path, base_dir)} })

\* startswith with the two network prefixes only.
is_network(image_path) ==
    \/ Len(image_path) >= 3 /\ SubSeq(image_path, 1, 3) = <<"http:", "/", "/">>
    \/ Len(image_path) >= 3 /\ SubSeq(image_path, 1, 3) = <<"https:", "/", "/">>

\* image_path.startswith(('http://', 'https://', 'data:'))
is_online(image_path) ==
    \/ Len(image_path) >= 3 /\ SubSeq(image_path, 1, 3) = <<"http:", "/", "/">>
    \/ Len(image_path) >= 3 /\ SubSeq(image_path, 1, 3) = <<"https:", "/", "/">>
    \/ Len(image_path) >= 1 /\ image_path[1] = "data:"

\* replace_image for a match with groups alt_text and image_path and text
\* whole: the replacement, whether image_count was incremented, the paths
\* exists() was called on, the diagnostic printed, and whether the call
\* raised instead of returning.
replace_image(whole, alt_text, image_path, base_dir, os) ==
    IF is_online(image_path)
    THEN [text |-> whole, counted |-> 0, stats |-> <<>>, diag |-> <<>>,
          raised |-> FALSE]
    ELSE TheValue({
        IF img_file.raised
        THEN [text |-> whole, counted |-> 0, stats |-> looked, diag |-> <<>>,
              raised |-> TRUE]
        ELSE IF img_file.found /\ path_exists(img_file.path, os)
        THEN TheValue({
            IF data_url.ok
            THEN [text |-> <<"!", "[">> \o alt_text \o <<"]", "(">>
                           \o data_url.url \o <<")">>,
                  counted |-> 1,
                  stats |-> looked \o <<img_file.path>>,
                  diag |-> <<"embedded">>, raised |-> FALSE]
            ELSE [text |-> whole, counted |-> 0,
                  stats |-> looked \o <<img_file.path>>,
                  diag |-> <<"base64 failed">>, raised |-> FALSE]
            : data_url \in {to_base64(img_file.path, os)} })
        ELSE [text |-> whole, counted |-> 0, stats |-> looked,
              diag |-> <<"not found">>, raised |-> FALSE]
        : img_file \in {find_image_file(image_path, base_dir, os)},
          looked \in {find_image_stats(image_path, base_dir, os)} })

\* self.pattern = r'!\[([^\]]*)\]\(([^)]+)\)': the leftmost match at or
\* after pos, [at, close, end]: "!" "[" at at, the first "]" after them at
\* close, followed by "(", and the first ")" after that at end, with at
\* least one token between; at is 0 when the pattern does not match.
RECURSIVE image_search(_, _)
image_search(s, pos) ==
    IF pos + 5 > Len(s) THEN [at |-> 0, close |-> 0, end |-> 0]
    ELSE LET c == FirstIndexOf(s, "]", pos + 2)
             e == IF c = 0 THEN 0 ELSE FirstIndexOf(s, ")", c + 2)
         IN IF /\ s[pos] = "!" /\ s[pos + 1] = "["
               /\ c # 0 /\ c + 1 <= Len(s) /\ s[c + 1] = "("
               /\ e > c + 2
            THEN [at |-> pos, close |-> c, end |-> e]
            ELSE image_search(s, pos + 1)

\* re.sub(self.pattern, replace_image, content) from pos on, with the count
\* of embedded images, the paths looked up and the diagnostics so far; the
\* substitution stops at the first replace_image that raises.
RECURSIVE image_sub(_, _, _, _)
image_sub(s, pos, base_dir, os) ==
    TheValue({
        IF m.at = 0
        THEN [text |-> SubSeq(s, pos, Len(s)), count |-> 0, stats |-> <<>>,
              diag |-> <<>>, raised |-> FALSE]
        ELSE TheValue({
            IF r.raised
            THEN [text |-> <<>>, count |-> 0, stats |-> r.stats,
                  diag |-> <<>>, raised |-> TRUE]
            ELSE TheValue({
                [text |-> IF rest.raised THEN <<>>
                          ELSE SubSeq(s, pos, m.at - 1) \o r.text \o rest.text,
                 count |-> IF rest.raised THEN 0 ELSE r.counted + rest.count,
                 stats |-> r.stats \o rest.stats,
                 diag |-> r.diag \o rest.diag,
                 raised |-> rest.raised]
                : rest \in {image_sub(s, m.end + 1, base_dir, os)} })
            : r \in {replace_image(SubSeq(s, m.at, m.end),
                                   SubSeq(s, m.at + 2, m.close - 1),
                                   SubSeq(s, m.close + 2, m.end - 1),
                                   base_dir, os)} })
        : m \in {image_search(s, pos)} })

\* ImageProcessor.process: (processed, image_count) when raised is FALSE,
\* and what the call did on the way.
ImageProcessor_process(content, base_dir, os) ==
    TheValue({image_sub(s, 1, base_dir, os) : s \in {content}})

\* re.findall(self.pattern, content): the groups of every match.
RECURSIVE image_findall(_, _)
image_findall(s, pos) ==
    TheValue({
        IF m.at = 0 THEN <<>>
        ELSE <<[alt |-> SubSeq(s, m.at + 2, m.close - 1),
                path |-> SubSeq(s, m.close + 2, m.end - 1)]>>
             \o image_findall(s, m.end + 1)
        : m \in {image_search(s, pos)} })

\* ImageProcessor.extract_images
extract_images(content) ==
    TheValue({[k \in 1..Len(matches) |-> matches[k].path]
              : matches \in {image_findall(content, 1)} })

----------------------------------------------------------------------------
(* HTMLConverter (src/src/core/converter.py). *)

\* Path.parent
parent(p) ==
    IF p.parts = <<>> THEN p
    ELSE [abs |-> p.abs, parts |-> SubSeq(p.parts, 1, Len(p.parts) - 1)]

\* Path.stem: the name without its suffix.
stem(p) ==
    IF suffix(p) = "" THEN NameOf(p)
    ELSE SubSeq(NameOf(p), 1, Len(NameOf(p)) - 1)

\* Path.with_suffix(sfx) of a path with a name (it raises ValueError for a
\* path without one).
with_suffix(p, sfx) ==
    [abs |-> p.abs,
     parts |-> SubSeq(p.parts, 1, Len(p.parts) - 1) \o <<stem(p) \o <<sfx>>>>]

\* The location is a directory.
is_dir(loc, os) ==
    \/ IsPrefix(loc, Cwd)
    \/ IsPrefix(loc, LocationOf(BaseDir))
    \/ \E e \in DOMAIN os.files :
          IsPrefix(loc, e) /\ (e # loc \/ os.files[e].kind = "dir")

\* source_path.read_text(encoding='utf-8') of a path that exists:
\* [ok, text, error].
read_text(p, os) ==
    LET loc == LocationOf(p) IN
    IF is_dir(loc, os)
    THEN [ok |-> FALSE, text |-> <<>>,
          error |-> OSErrorStr("[Errno 21] Is a directory", p)]
    ELSE IF os.files[loc].kind = "unreadable"
    THEN [ok |-> FALSE, text |-> <<>>,
          error |-> OSErrorStr("[Errno 13] Permission denied", p)]
    ELSE [ok |-> TRUE, text |-> os.files[loc].data, error |-> <<>>]

\* output_path.write_text(full_html, encoding='utf-8'): [ok, files, error].
write_text(p, data, os) ==
    LET loc == LocationOf(p) IN
    IF name_too_long(p)
    THEN [ok |-> FALSE, files |-> os.files,
          error |-> OSErrorStr("[Errno 36] File name too long", p)]
    ELSE IF is_dir(loc, os)
    THEN [ok |-> FALSE, files |-> os.files,
          error |-> OSErrorStr("[Errno 21] Is a directory", p)]
    ELSE IF ~is_dir(LocationOf(parent(p)), os)
    THEN [ok |-> FALSE, files |-> os.files,
          error |-> OSErrorStr("[Errno 2] No such file or directory", p)]
    ELSE IF loc \in DOMAIN os.files /\ os.files[loc].kind = "unreadable"
    THEN [ok |-> FALSE, files |-> os.files,
          error |-> OSErrorStr("[Errno 13] Permission denied", p)]
    ELSE [ok |-> TRUE,
          files |-> [l \in DOMAIN os.files \cup {loc} |->
                        IF l = loc THEN [kind |-> "file", data |-> data]
                        ELSE os.files[l]],
          error |-> <<>>]

\* markdown.Markdown(extensions=self.md_extensions).convert(md_content), the
\* library the converter calls, on texts of tokens: fenced code blocks,
\* paragraphs, code spans, images and line breaks.  The texts have no
\* headings, no metadata lines and no two adjacent runs of backticks; the
\* library runs without Pygments, which the repository does not install.
Tilde == "~~~"
Ticks == "[two backticks]"
Words == {M, A, "x"}

\* source.strip() is empty
is_blank(s) == \A i \in 1..Len(s) : s[i] = NL

\* fenced_code: the closing fence of a block whose code starts at c, the
\* same fence at the start of a line and at the end of one; 0 when none.
RECURSIVE fence_close(_, _, _)
fence_close(s, fence, c) ==
    IF c > Len(s) THEN 0
    ELSE IF s[c] = fence /\ s[c - 1] = NL /\ (c = Len(s) \/ s[c + 1] = NL)
         THEN c
    ELSE fence_close(s, fence, c + 1)

\* The end of the opening line of a fence at pos: the fence, a language or
\* none, the end of the line; 0 when the line is no opening line.
fence_line(s, pos) ==
    IF pos + 1 <= Len(s) /\ s[pos + 1] = NL THEN pos + 1
    ELSE IF pos + 2 <= Len(s) /\ s[pos + 1] \in Words /\ s[pos + 2] = NL
         THEN pos + 2
    ELSE 0

\* fenced_code, FENCED_BLOCK_RE.search: the leftmost fenced block at or
\* after pos, at being 0 when there is none.
RECURSIVE fence_search(_, _)
fence_search(s, pos) ==
    IF pos + 2 > Len(s) THEN [at |-> 0, nl |-> 0, close |-> 0]
    ELSE IF /\ s[pos] \in {F, Tilde}
            /\ (pos = 1 \/ s[pos - 1] = NL)
            /\ fence_line(s, pos) # 0
            /\ fence_close(s, s[pos], fence_line(s, pos) + 1) # 0
         THEN [at |-> pos, nl |-> fence_line(s, pos),
               close |-> fence_close(s, s[pos], fence_line(s, pos) + 1)]
    ELSE fence_search(s, pos + 1)

\* codehilite without Pygments: the code of a block, as it is.
code_block(lang, code) ==
    <<"<pre class=\"codehilite\">">>
    \o (IF lang = <<>> THEN <<"<code>">>
        ELSE <<"<code class=\"language-">> \o lang \o <<"\">">>)
    \o code \o <<"</code>", "</pre>">>

\* The leftmost code span at or after pos: a run of backticks, at least one
\* token, the same run; <<0, 0>> when there is none.
RECURSIVE code_search(_, _)
code_search(s, pos) ==
    IF pos + 2 > Len(s) THEN <<0, 0>>
    ELSE IF s[pos] \in {Ticks, F} /\ FirstIndexOf(s, s[pos], pos + 2) # 0
         THEN <<pos, FirstIndexOf(s, s[pos], pos + 2)>>
    ELSE code_search(s, pos + 1)

\* nl2br: a line break at every end of line of a paragraph.
RECURSIVE md_breaks(_)
md_breaks(s) ==
    IF s = <<>> THEN <<>>
    ELSE (IF Head(s) = NL THEN <<"<br />", NL>> ELSE <<Head(s)>>)
         \o md_breaks(Tail(s))

\* An image becomes an img element.
md_image(alt_text, src) ==
    <<"<img alt=\"">> \o alt_text \o <<"\" src=\"">> \o src \o <<"\" />">>

\* The images of a text without code spans, from pos on.
RECURSIVE md_images(_, _)
md_images(s, pos) ==
    TheValue({
        IF m.at = 0 THEN md_breaks(SubSeq(s, pos, Len(s)))
        ELSE md_breaks(SubSeq(s, pos, m.at - 1))
             \o md_image(SubSeq(s, m.at + 2, m.close - 1),
                         SubSeq(s, m.close + 2, m.end - 1))
             \o md_images(s, m.end + 1)
        : m \in {image_search(s, pos)} })

\* The inline content of a paragraph from pos on: the code spans first,
\* their text kept as it is, then the images of what is between them.
RECURSIVE md_inline(_, _)
md_inline(s, pos) ==
    TheValue({
        IF m[1] = 0 THEN md_images(SubSeq(s, pos, Len(s)), 1)
        ELSE md_images(SubSeq(s, pos, m[1] - 1), 1)
             \o <<"<code>">> \o SubSeq(s, m[1] + 1, m[2] - 1) \o <<"</code>">>
             \o md_inline(s, m[2] + 1)
        : m \in {code_search(s, pos)} })

\* The end of the paragraph that starts at the head of s: the index of its
\* last token.
RECURSIVE paragraph_end(_, _)
paragraph_end(s, i) ==
    IF i >= Len(s) THEN Len(s)
    ELSE IF s[i + 1] = NL /\ (i + 1 = Len(s) \/ s[i + 2] = NL) THEN i
    ELSE paragraph_end(s, i + 1)

\* The paragraphs of a text without fenced blocks, each followed by the end
\* of its line.
RECURSIVE md_paragraphs(_)
md_paragraphs(s) ==
    IF is_blank(s) THEN <<>>
    ELSE IF Head(s) = NL THEN md_paragraphs(Tail(s))
    ELSE TheValue({
        <<"<p>">> \o md_inline(SubSeq(s, 1, e), 1) \o <<"</p>", NL>>
        \o md_paragraphs(SubSeq(s, e + 1, Len(s)))
        : e \in {paragraph_end(s, 1)} })

\* The blocks of a text from pos on: the fenced blocks, and the paragraphs
\* between them.
RECURSIVE md_blocks(_, _)
md_blocks(s, pos) ==
    TheValue({
        IF m.at = 0 THEN md_paragraphs(SubSeq(s, pos, Len(s)))
        ELSE md_paragraphs(SubSeq(s, pos, m.at - 1))
             \o code_block(SubSeq(s, m.at + 1, m.nl - 1),
                           SubSeq(s, m.nl + 1, m.close - 1))
             \o <<NL>>
             \o md_blocks(s, m.close + 1)
        : m \in {fence_search(s, pos)} })

\* The toc extension: the list of the headings of a document, an empty list
\* for a document without headings.
TocDivOpen == "<div class=\"toc\">"

toc_div == <<TocDivOpen, "<ul>", "</ul>", DivClose>>

\* A transform that runs its extensions on a blank text too.
markdown_convert_blank_too(md_content) ==
    [html_body |-> SubSeq(md_blocks(md_content, 1), 1,
                          Len(md_blocks(md_content, 1)) - 1),
     toc |-> toc_div]

\* html_body = md.convert(md_content); toc_html = getattr(md, 'toc', ''):
\* convert returns '' for a blank text before any extension has run, md.toc
\* being '' since the reset of the toc extension; the body is stripped.
markdown_convert(md_content) ==
    TheValue({
        IF is_blank(s) THEN [html_body |-> <<>>, toc |-> <<>>]
        ELSE TheValue({ [html_body |-> SubSeq(b, 1, Len(b) - 1), toc |-> toc_div]
                        : b \in {md_blocks(s, 1)} })
        : s \in {md_content} })

\* A get_theme that knows no fallback: None for an unknown name.
get_theme_strict(name) ==
    IF name \in {"default", "minimal", "professional"} THEN name ELSE "None"

\* get_theme (src/src/themes/__init__.py): themes.get(name, DefaultTheme)
get_theme(name) ==
    IF name \in {"default", "minimal", "professional"} THEN name ELSE "default"

\* get_styles of the theme class: the CSS literal of the class, every class
\* having its own (default.py 23-397, minimal.py 23-245, professional.py
\* 23-353).
get_styles(theme_class) == <<"styles", theme_class>>

\* MermaidProcessor.get_mermaid_script: the bootstrap script, one literal.
get_mermaid_script == <<"mermaid bootstrap script">>

\* get_scripts of the theme class: the script literal of the class, then
\* the bootstrap script when the flag is set.
get_scripts(theme_class, mermaid_enabled) ==
    <<"scripts", theme_class>>
    \o (IF mermaid_enabled THEN get_mermaid_script ELSE <<>>)

\* The elements of the TOC region.
TocSidebarOpen == "<div class=\"toc-sidebar\" id=\"toc-sidebar\">"
TocHeading == "<h2>TOC</h2>"

\* BaseTheme._create_toc_section
create_toc_section(toc_html) ==
    IF toc_html = <<>> THEN <<>>
    ELSE <<TocSidebarOpen, TocHeading>> \o toc_html \o <<DivClose>>

\* A render that builds the TOC region whatever the fragment is.
render_toc_always(theme_class, body_html, toc_html, title, image_count, mermaid_enabled) ==
    [theme |-> theme_class, title |-> title, toc |-> toc_html,
     body |-> body_html, image_count |-> image_count,
     has_mermaid |-> mermaid_enabled,
     styles |-> get_styles(theme_class),
     scripts |-> get_scripts(theme_class, mermaid_enabled),
     toc_section |-> <<TocSidebarOpen, TocHeading>> \o toc_html \o <<DivClose>>]

\* BaseTheme.render, inherited by the three themes: the document as the
\* record of its regions (styles, header, TOC region, content, footer,
\* scripts) and of what it was rendered from.
render(theme_class, body_html, toc_html, title, image_count, mermaid_enabled) ==
    [theme |-> theme_class, title |-> title, toc |-> toc_html,
     body |-> body_html, image_count |-> image_count,
     has_mermaid |-> mermaid_enabled,
     styles |-> get_styles(theme_class),
     scripts |-> get_scripts(theme_class, mermaid_enabled),
     toc_section |-> IF toc_html # <<>> THEN create_toc_section(toc_html) ELSE <<>>]

\* _create_html_document: get_theme(theme).render(...)
create_html_document(body_html, toc_html, title, theme, image_count, mermaid_enabled) ==
    render(get_theme(theme), body_html, toc_html, title, image_count,
           mermaid_enabled)

\* output_path.stat().st_size of a written document: the shell of the
\* template and the body.
st_size(full_html) == Len(full_html.body) + 1

\* What a write that fails midway leaves of a document: its text up to the
\* scripts.
partly(full_html) == [full_html EXCEPT !.scripts = <<>>]

\* The places an exception can come from besides the file system: the
\* stage of convert that raises, "none" when none does.  "write" raises
\* before the destination is opened, "write_partial" after it was truncated
\* and partly written.
Faults ==
    {"none", "read", "image", "mermaid", "markdown", "template",
     "write", "write_partial", "stat"}

\* str(e) of the exception a stage raises
StageError(stage) == <<"error in ", stage>>

\* The literal of converter.py line 103 before the path.
NotFoundPrefix == "<source file does not exist>: "

\* ConversionResult; error_message None is NoMessage.
NoMessage == <<"None">>

ConversionResult(success, output_path, file_size, image_count, duration, error_message) ==
    [success |-> success, output_path |-> output_path, file_size |-> file_size,
     image_count |-> image_count, duration |-> duration,
     error_message |-> error_message]

\* An optional Path argument.
NoPath == [given |-> FALSE, path |-> PathOf(<<>>)]
Given(p) == [given |-> TRUE, path |-> p]

\* A destination that is the default one whatever the caller gave.
output_always_default(source_path, output_path) ==
    IF NameOf(source_path) = <<>> THEN [ok |-> FALSE, path |-> source_path]
    ELSE [ok |-> TRUE, path |-> with_suffix(source_path, ".html")]

\* output_path or source_path.with_suffix('.html'): [ok, path]; ok is
\* FALSE when with_suffix raises ValueError, the source having no name.
output_or_default(source_path, output_path) ==
    IF output_path.given THEN [ok |-> TRUE, path |-> output_path.path]
    ELSE IF NameOf(source_path) = <<>> THEN [ok |-> FALSE, path |-> source_path]
    ELSE [ok |-> TRUE, path |-> with_suffix(source_path, ".html")]

EmptyNameError(p) == PathStr(p) \o <<" has an empty name">>

\* The result of lines 99-104 with a message that leaves the path out.
not_found_without_path(source_path, output_path) ==
    ConversionResult(FALSE, output_path, 0, 0, "zero", <<NotFoundPrefix>>)

\* lines 99-104: the result for a source that does not exist, its duration
\* being the literal 0.
not_found_result(source_path, output_path) ==
    ConversionResult(FALSE, output_path, 0, 0, "zero",
                     <<NotFoundPrefix>> \o PathStr(source_path))

\* A failed result that reports the size of what the write stage left.
failure_result_sized(output_path, error_message) ==
    ConversionResult(FALSE, output_path, 1, 0, "measured", error_message)

\* lines 164-171: the result the except clause of convert returns.
failure_result(output_path, error_message) ==
    ConversionResult(FALSE, output_path, 0, 0, "measured", error_message)

\* The record of a stage that convert has entered: its name, and for the
\* two rewrites and the transform the text it was handed.
Stage(name, input) == [stage |-> name, input |-> input]

StageNames(trace) == [k \in 1..Len(trace) |-> trace[k].stage]

\* An image stage that runs on the text the diagram rewrite has left.
image_stage_after_mermaid(embed_images, md_content, base_dir, os) ==
    IF embed_images
    THEN ImageProcessor_process(MermaidProcessor_process(md_content), base_dir, os)
    ELSE [text |-> md_content, count |-> 0, raised |-> FALSE]

\* An image stage that rewrites whatever embed_images is.
image_stage_always(embed_images, md_content, base_dir, os) ==
    ImageProcessor_process(md_content, base_dir, os)

\* lines 110-115: image_count = 0; if embed_images: md_content, image_count =
\* self.image_processor.process(md_content, source_path.parent)
image_stage(embed_images, md_content, base_dir, os) ==
    IF embed_images THEN ImageProcessor_process(md_content, base_dir, os)
    ELSE [text |-> md_content, count |-> 0, raised |-> FALSE]

\* lines 118-119: if process_mermaid: md_content =
\* self.mermaid_processor.process(md_content)
mermaid_stage(process_mermaid, md_content) ==
    IF process_mermaid THEN MermaidProcessor_process(md_content) ELSE md_content

\* HTMLConverter.convert in the environment os, fault being the stage that
\* raises: [raised, exc, result, files, trace].  raised says that an
\* exception left convert (exc is its message) instead of a result; files
\* is the file system afterwards, trace the stages entered.
convert(source_path, output_path, theme, embed_images, process_mermaid, os, fault) ==
    LET out == output_or_default(source_path, output_path)
        \* lines 162-171: except Exception as e
        handler(msg, files, trace) ==
            IF out.ok
            THEN [raised |-> FALSE, exc |-> <<>>,
                  result |-> failure_result(out.path, msg),
                  files |-> files, trace |-> trace]
            ELSE [raised |-> TRUE, exc |-> EmptyNameError(source_path),
                  result |-> <<>>, files |-> files, trace |-> trace]
        source == path_probe(source_path, os)
        read == read_text(source_path, os)
        t1 == <<Stage("exists", <<>>)>>
        t2 == t1 \o <<Stage("read", <<>>)>>
        t3 == t2 \o (IF embed_images THEN <<Stage("image", read.text)>> ELSE <<>>)
        t4(text) == t3 \o (IF process_mermaid THEN <<Stage("mermaid", text)>> ELSE <<>>)
        t5(text) == t4(text) \o <<Stage("markdown", mermaid_stage(process_mermaid, text))>>
        t6(text) == t5(text) \o <<Stage("template", <<>>)>>
        t7(text) == t6(text) \o <<Stage("write", <<>>)>>
        t8(text) == t7(text) \o <<Stage("stat", <<>>)>>
    IN
    IF source = "raise"
    THEN handler(OSErrorStr("[Errno 36] File name too long", source_path), os.files, t1)
    ELSE IF source = "no"
    THEN (IF out.ok
          THEN [raised |-> FALSE, exc |-> <<>>,
                result |-> not_found_result(source_path, out.path),
                files |-> os.files, trace |-> t1]
          ELSE handler(EmptyNameError(source_path), os.files, t1))
    ELSE IF ~read.ok THEN handler(read.error, os.files, t2)
    ELSE IF fault = "read" THEN handler(StageError("read"), os.files, t2)
    ELSE TheValue({
        IF embed_images /\ image.raised
        THEN handler(OSErrorStr("[Errno 36] File name too long", PathOf(<<LongName>>)),
                     os.files, t3)
        ELSE IF embed_images /\ fault = "image"
        THEN handler(StageError("image"), os.files, t3)
        ELSE IF process_mermaid /\ fault = "mermaid"
        THEN handler(StageError("mermaid"), os.files, t4(image.text))
        ELSE IF fault = "markdown" THEN handler(StageError("markdown"), os.files, t5(image.text))
        ELSE IF fault = "template" THEN handler(StageError("template"), os.files, t6(image.text))
        ELSE TheValue({
            TheValue({
                IF ~written.ok THEN handler(written.error, os.files, t7(image.text))
                ELSE IF fault = "write" THEN handler(StageError("write"), os.files, t7(image.text))
                ELSE IF fault = "write_partial"
                THEN handler(StageError("write"),
                             write_text(out.path, partly(full_html), os).files, t7(image.text))
                ELSE IF fault = "stat"
                THEN handler(StageError("stat"), written.files, t8(image.text))
                ELSE [raised |-> FALSE, exc |-> <<>>,
                      result |-> ConversionResult(TRUE, out.path, st_size(full_html),
                                                  image.count, "measured", NoMessage),
                      files |-> written.files, trace |-> t8(image.text)]
                : written \in {write_text(out.path, full_html, os)} })
            : full_html \in
                { create_html_document(md.html_body, md.toc, stem(source_path),
                                       theme, image.count, process_mermaid)
                  : md \in {markdown_convert(
                               mermaid_stage(process_mermaid, image.text))} } })
        : image \in {image_stage(embed_images, read.text, parent(source_path), os)} })

----------------------------------------------------------------------------
(* The calls of MermaidProcessor on bounded texts. *)

MermaidPieces ==
    {<<F>>, <<M>>, <<NL>>, <<A>>, <<F, M, NL>>, <<NL, F>>}

MermaidTexts == TextsOf(MermaidPieces, MaxMermaidPieces)

\* The parts a specification does not use are idle.
MermaidInit ==
    /\ mText \in MermaidTexts
    /\ mCall = "none"
    /\ mRet = <<>>
    /\ fs = <<>> /\ existsRaises = FALSE
    /\ iText = <<>> /\ iCall = "idle" /\ iRet = <<>>
    /\ cCall = <<>> /\ cPc = "idle" /\ cResults = <<>>
    /\ cRaised = <<>> /\ cHistory = <<>> /\ fs0 = <<>>
    /\ tCall = "idle" /\ tArgs = <<>> /\ tRet = <<>>
    /\ pCall = <<>> /\ pPc = "idle" /\ pFiles = <<>> /\ pIndex = 0
    /\ pTasks = <<>> /\ pYielded = {} /\ pResults = <<>> /\ pExc = <<>>
    /\ pBefore = <<>> /\ sPc = "idle" /\ page = <<>>
    /\ rCall = <<>> /\ rRet = <<>>
    /\ stats = <<>> /\ file_records = <<>> /\ tracked = <<>>
    /\ xCall = <<>> /\ xPc = "idle" /\ xIndex = 0
    /\ success_count = 0 /\ xExit = 0

CallMermaidProcess ==
    /\ mCall = "none"
    /\ mCall' = "process"
    /\ mRet' = MermaidProcessor_process(mText)
    /\ UNCHANGED <<mText, osVars, imageVars, convVars, themeVars, procVars, laterVars>>

CallExtractDiagrams ==
    /\ mCall = "none"
    /\ mCall' = "extract_diagrams"
    /\ mRet' = extract_diagrams(mText)
    /\ UNCHANGED <<mText, osVars, imageVars, convVars, themeVars, procVars, laterVars>>

CallHasMermaid ==
    /\ mCall = "none"
    /\ mCall' = "has_mermaid"
    /\ mRet' = <<has_mermaid(mText)>>
    /\ UNCHANGED <<mText, osVars, imageVars, convVars, themeVars, procVars, laterVars>>

MermaidNext ==
    \/ CallMermaidProcess
    \/ CallExtractDiagrams
    \/ CallHasMermaid

SpecMermaid == MermaidInit /\ [][MermaidNext]_vars

----------------------------------------------------------------------------
(* The calls of ImageProcessor on bounded texts and file systems. *)

RefOf(alt_text, image_path) ==
    <<"!", "[">> \o alt_text \o <<"]", "(">> \o image_path \o <<")">>

\* The paths of the references of the texts that are not online: a relative
\* one, an absolute one, and one with a name that is too long.
RelativeImage == <<"d", "/", "a", ".jpg">>
AbsoluteImage == <<"/", "d", "/", "a", ".jpg">>
LongImage == <<LongName>>

ImagePieces ==
    { RefOf(<<"x">>, RelativeImage), RefOf(<<"x">>, AbsoluteImage),
      RefOf(<<"x">>, LongImage),
      RefOf(<<"x">>, <<"http:", "/", "/", "a">>),
      RefOf(<<"x">>, <<"https:", "/", "/", "a">>),
      RefOf(<<"x">>, <<"data:", "a">>),
      <<"!", "[", "x", "]", "(">>, <<")">>, <<"x">> }

\* Every location _find_image_file looks at for RelativeImage and
\* AbsoluteImage under BaseDir.
ImageLocations ==
    UNION { {LocationOf(path_attempts(p, BaseDir)[k]) : k \in 1..4}
            \cup {LocationOf(common_file(p, BaseDir, k)) : k \in 1..Len(common_dirs)}
          : p \in {RelativeImage, AbsoluteImage} }

RECURSIVE SetToSeq(_)
SetToSeq(S) ==
    IF S = {} THEN <<>>
    ELSE LET x == CHOOSE y \in S : TRUE IN <<x>> \o SetToSeq(S \ {x})

ImageLocationSeq == SetToSeq(ImageLocations)

\* The bytes of the file at a location: one byte, different for every
\* location, so that a data URI tells which file was read.
ImageData(loc) ==
    <<CHOOSE k \in 1..Len(ImageLocationSeq) : ImageLocationSeq[k] = loc>>

\* The file systems with at most n entries, all at ImageLocations.
FileSystems(n) ==
    UNION { { [loc \in D |-> [kind |-> kinds[loc],
                              data |-> IF kinds[loc] = "dir" THEN <<>>
                                       ELSE ImageData(loc)]]
              : kinds \in [D -> {"file", "dir", "unreadable"}] }
          : D \in {D \in SUBSET ImageLocations : Cardinality(D) <= n} }

ImageInit ==
    /\ \E k \in 0..MaxImageScenario :
          /\ iText \in TextsOf(ImagePieces, k)
          /\ fs \in FileSystems(MaxImageScenario - k)
    /\ existsRaises \in BOOLEAN
    /\ iCall = "none"
    /\ iRet = <<>>
    /\ mText = <<>> /\ mCall = "idle" /\ mRet = <<>>
    /\ cCall = <<>> /\ cPc = "idle" /\ cResults = <<>>
    /\ cRaised = <<>> /\ cHistory = <<>> /\ fs0 = <<>>
    /\ tCall = "idle" /\ tArgs = <<>> /\ tRet = <<>>
    /\ pCall = <<>> /\ pPc = "idle" /\ pFiles = <<>> /\ pIndex = 0
    /\ pTasks = <<>> /\ pYielded = {} /\ pResults = <<>> /\ pExc = <<>>
    /\ pBefore = <<>> /\ sPc = "idle" /\ page = <<>>
    /\ rCall = <<>> /\ rRet = <<>>
    /\ stats = <<>> /\ file_records = <<>> /\ tracked = <<>>
    /\ xCall = <<>> /\ xPc = "idle" /\ xIndex = 0
    /\ success_count = 0 /\ xExit = 0

Os == [files |-> fs, exists_raises |-> existsRaises]

CallImageProcess ==
    /\ iCall = "none"
    /\ iCall' = "process"
    /\ iRet' = ImageProcessor_process(iText, BaseDir, Os)
    /\ UNCHANGED <<iText, osVars, mermaidVars, convVars, themeVars, procVars, laterVars>>

CallFindImageFile ==
    /\ iCall = "none"
    /\ \E k \in 1..Len(extract_images(iText)) :
          LET image_path == extract_images(iText)[k] IN
          iRet' = [image_path |-> image_path,
                   ret |-> find_image_file(image_path, BaseDir, Os)]
    /\ iCall' = "_find_image_file"
    /\ UNCHANGED <<iText, osVars, mermaidVars, convVars, themeVars, procVars, laterVars>>

CallExtractImages ==
    /\ iCall = "none"
    /\ iCall' = "extract_images"
    /\ iRet' = extract_images(iText)
    /\ UNCHANGED <<iText, osVars, mermaidVars, convVars, themeVars, procVars, laterVars>>

ImageNext ==
    \/ CallImageProcess
    \/ CallFindImageFile
    \/ CallExtractImages

SpecImage == ImageInit /\ [][ImageNext]_vars

----------------------------------------------------------------------------
(* The calls of HTMLConverter: one convert (Spec) and one convert_batch    *)
(* (SpecBatch).                                                            *)

\* The sources: a Markdown file next to its images, a file without a
\* suffix, the current directory (Path("."), a path without a name), a
\* path whose name is too long, and a file of the same name elsewhere.
DocMd == JoinPath(BaseDir, <<"doc", ".md">>)
Notes == JoinPath(BaseDir, <<"notes">>)
DotPath == PathOf(<<>>)
LongMd == JoinPath(BaseDir, <<LongName, ".md">>)
OtherDocMd == PathOf(<<"/", "other", "/", "doc", ".md">>)

\* The destinations: the default one of DocMd, one in an existing
\* directory, one in a directory that does not exist.
DocHtml == JoinPath(BaseDir, <<"doc", ".html">>)
OutDir == PathOf(<<"/", "out">>)
OutHtml == JoinPath(OutDir, <<"page", ".html">>)
NoDir == PathOf(<<"/", "nodir">>)
NoDirHtml == JoinPath(NoDir, <<"page", ".html">>)

\* The Markdown texts: an empty one, one with a local image and a diagram,
\* one with an image whose name is too long.
DiagramDoc ==
    RefOf(<<"x">>, <<"a", ".jpg">>) \o <<NL, F, M, NL, "x", NL, F>>
LongImageDoc == RefOf(<<"x">>, LongImage)
Docs == {<<>>, DiagramDoc, LongImageDoc}

File(data) == [kind |-> "file", data |-> data]
Dir == [kind |-> "dir", data |-> <<>>]
Unreadable == [kind |-> "unreadable", data |-> <<>>]
NoEntry == [loc \in {} |-> Dir]
Entry(p, e) == LocationOf(p) :> e

\* What is at the destination before the call: nothing, an older
\* document, a directory.
OldHtml == File(create_html_document(<<"old">>, <<>>, <<"doc">>, "default", 0, FALSE))

ConvertFileSystems ==
    { doc @@ img @@ dest @@ Entry(Notes, File(<<"x">>)) @@ Entry(OutDir, Dir) :
        doc \in {NoEntry, Entry(DocMd, Dir), Entry(DocMd, Unreadable)}
                \cup {Entry(DocMd, File(d)) : d \in Docs},
        img \in {NoEntry, Entry(JoinPath(BaseDir, <<"a", ".jpg">>), File(<<1>>))},
        dest \in {NoEntry, Entry(DocHtml, OldHtml), Entry(DocHtml, Dir)} }

ConvertInit ==
    /\ fs \in ConvertFileSystems
    /\ existsRaises \in BOOLEAN
    /\ cCall \in [op : {"convert"},
                  source_path : {DocMd, Notes, DotPath, LongMd},
                  output_path : {NoPath, Given(OutHtml), Given(NoDirHtml)},
                  theme : {"default", "minimal", "professional", "nonexistent"},
                  embed_images : BOOLEAN,
                  process_mermaid : BOOLEAN]
    /\ cPc = "start"
    /\ cResults = <<>>
    /\ cRaised = [raised |-> FALSE, exc |-> <<>>]
    /\ cHistory = <<>>
    /\ fs0 = fs
    /\ mText = <<>> /\ mCall = "idle" /\ mRet = <<>>
    /\ iText = <<>> /\ iCall = "idle" /\ iRet = <<>>
    /\ tCall = "idle" /\ tArgs = <<>> /\ tRet = <<>>
    /\ pCall = <<>> /\ pPc = "idle" /\ pFiles = <<>> /\ pIndex = 0
    /\ pTasks = <<>> /\ pYielded = {} /\ pResults = <<>> /\ pExc = <<>>
    /\ pBefore = <<>> /\ sPc = "idle" /\ page = <<>>
    /\ rCall = <<>> /\ rRet = <<>>
    /\ stats = <<>> /\ file_records = <<>> /\ tracked = <<>>
    /\ xCall = <<>> /\ xPc = "idle" /\ xIndex = 0
    /\ success_count = 0 /\ xExit = 0

\* One call of convert from the state of the model; a fault is taken only
\* where it changes what the call does.
ConvertStep(source_path, output_path, fault) ==
    convert(source_path, output_path, cCall.theme, cCall.embed_images,
            cCall.process_mermaid, Os, fault)

Effective(source_path, output_path, fault) ==
    \/ fault = "none"
    \/ ConvertStep(source_path, output_path, fault)
         # ConvertStep(source_path, output_path, "none")

Record(source_path, fault, r) ==
    [source_path |-> source_path, fault |-> fault, trace |-> r.trace,
     before |-> fs]

\* converter.convert(source_path, output_path, theme, embed_images,
\* process_mermaid)
CallConvert ==
    /\ cPc = "start"
    /\ cCall.op = "convert"
    /\ \E fault \in Faults :
          LET r == ConvertStep(cCall.source_path, cCall.output_path, fault) IN
          /\ Effective(cCall.source_path, cCall.output_path, fault)
          /\ cResults' = IF r.raised THEN <<>> ELSE <<r.result>>
          /\ cRaised' = [raised |-> r.raised, exc |-> r.exc]
          /\ cHistory' = <<Record(cCall.source_path, fault, r)>>
          /\ fs' = r.files
    /\ cPc' = "done"
    /\ UNCHANGED <<cCall, fs0, existsRaises, mermaidVars, imageVars, themeVars, procVars, laterVars>>

ConvertNext == CallConvert

Spec == ConvertInit /\ [][ConvertNext]_vars

\* The file systems of a batch.
BatchFileSystems ==
    { doc @@ Entry(OtherDocMd, File(<<"x">>)) @@ Entry(OutDir, Dir)
        @@ Entry(JoinPath(BaseDir, <<"a", ".jpg">>), File(<<1>>)) :
        doc \in {NoEntry, Entry(DocMd, File(DiagramDoc))} }

BatchSources == {DocMd, OtherDocMd, DotPath}

BatchInit ==
    /\ fs \in BatchFileSystems
    /\ existsRaises \in BOOLEAN
    /\ \E n \in 0..MaxBatch :
          cCall \in [op : {"convert_batch"},
                     source_paths : [1..n -> BatchSources],
                     output_dir : {NoPath, Given(OutDir), Given(NoDir)},
                     theme : {"default"},
                     embed_images : {TRUE},
                     process_mermaid : {TRUE}]
    /\ cPc = "start"
    /\ cResults = <<>>
    /\ cRaised = [raised |-> FALSE, exc |-> <<>>]
    /\ cHistory = <<>>
    /\ fs0 = fs
    /\ mText = <<>> /\ mCall = "idle" /\ mRet = <<>>
    /\ iText = <<>> /\ iCall = "idle" /\ iRet = <<>>
    /\ tCall = "idle" /\ tArgs = <<>> /\ tRet = <<>>
    /\ pCall = <<>> /\ pPc = "idle" /\ pFiles = <<>> /\ pIndex = 0
    /\ pTasks = <<>> /\ pYielded = {} /\ pResults = <<>> /\ pExc = <<>>
    /\ pBefore = <<>> /\ sPc = "idle" /\ page = <<>>
    /\ rCall = <<>> /\ rRet = <<>>
    /\ stats = <<>> /\ file_records = <<>> /\ tracked = <<>>
    /\ xCall = <<>> /\ xPc = "idle" /\ xIndex = 0
    /\ success_count = 0 /\ xExit = 0

\* lines 234-238: the output path of one source of a batch
batch_output_path(source_path, output_dir) ==
    IF output_dir.given
    THEN Given(JoinPath(output_dir.path, stem(source_path) \o <<".html">>))
    ELSE NoPath

\* One iteration of the loop of convert_batch; an exception of convert
\* leaves convert_batch, and the results made so far with it.
BatchIterate ==
    /\ cPc = "start"
    /\ cCall.op = "convert_batch"
    /\ Len(cHistory) < Len(cCall.source_paths)
    /\ LET source_path == cCall.source_paths[Len(cHistory) + 1]
           output_path == batch_output_path(source_path, cCall.output_dir)
       IN \E fault \in Faults :
             LET r == ConvertStep(source_path, output_path, fault) IN
             /\ Effective(source_path, output_path, fault)
             /\ cResults' = IF r.raised THEN <<>> ELSE Append(cResults, r.result)
             /\ cRaised' = [raised |-> r.raised, exc |-> r.exc]
             /\ cPc' = IF r.raised THEN "done" ELSE "start"
             /\ cHistory' = Append(cHistory, Record(source_path, fault, r))
             /\ fs' = r.files
    /\ UNCHANGED <<cCall, fs0, existsRaises, mermaidVars, imageVars, themeVars, procVars, laterVars>>

\* return results
BatchReturn ==
    /\ cPc = "start"
    /\ cCall.op = "convert_batch"
    /\ Len(cHistory) = Len(cCall.source_paths)
    /\ cPc' = "done"
    /\ UNCHANGED <<cCall, cResults, cRaised, cHistory, fs0, osVars,
                   mermaidVars, imageVars, themeVars, procVars, laterVars>>

BatchNext ==
    \/ BatchIterate
    \/ BatchReturn

SpecBatch == BatchInit /\ [][BatchNext]_vars

----------------------------------------------------------------------------
(* The calls of BaseTheme.render (SpecRender). *)

\* The document render returns (base.py 77-100), as its tokens in order:
\* the shell, the title, the styles, the header with title and image count,
\* the TOC region, the content region with the body, the footer, the
\* scripts.
ContentOpen == "<div class=\"content\" id=\"main-content\">"

document_text(document) ==
    <<"<!DOCTYPE html>", "<title>">> \o document.title \o <<"</title>", "<style>">>
    \o document.styles
    \o <<"</style>", "<div class=\"header\">", "<h1>">> \o document.title
    \o <<"</h1>", ToString(document.image_count), DivClose>>
    \o document.toc_section
    \o <<ContentOpen>> \o document.body \o <<DivClose>>
    \o <<"<div class=\"footer\">", DivClose, "<script>">>
    \o document.scripts \o <<"</script>">>

\* The TOC fragments and bodies render is handed.
TocFragments ==
    {<<>>, toc_div,
     <<TocDivOpen, "<ul>", "<li>", "a", "</li>", "</ul>", DivClose>>}

Bodies == {<<>>, <<"<p>", "x", "</p>">>, <<"<h1>", "a", "</h1>">>}

\* A render whose argument for the image count is at most this.
MaxImageCount == 1

RenderInit ==
    /\ tArgs \in [theme : {"default", "minimal", "professional"},
                  body_html : Bodies,
                  toc_html : TocFragments,
                  title : {<<"doc">>},
                  image_count : 0..MaxImageCount,
                  has_mermaid : BOOLEAN]
    /\ tCall = "none"
    /\ tRet = <<>>
    /\ fs = <<>> /\ existsRaises = FALSE
    /\ mText = <<>> /\ mCall = "idle" /\ mRet = <<>>
    /\ iText = <<>> /\ iCall = "idle" /\ iRet = <<>>
    /\ cCall = <<>> /\ cPc = "idle" /\ cResults = <<>>
    /\ cRaised = <<>> /\ cHistory = <<>> /\ fs0 = <<>>
    /\ pCall = <<>> /\ pPc = "idle" /\ pFiles = <<>> /\ pIndex = 0
    /\ pTasks = <<>> /\ pYielded = {} /\ pResults = <<>> /\ pExc = <<>>
    /\ pBefore = <<>> /\ sPc = "idle" /\ page = <<>>
    /\ rCall = <<>> /\ rRet = <<>>
    /\ stats = <<>> /\ file_records = <<>> /\ tracked = <<>>
    /\ xCall = <<>> /\ xPc = "idle" /\ xIndex = 0
    /\ success_count = 0 /\ xExit = 0

\* get_theme(theme).render(body_html, toc_html, title, image_count, has_mermaid)
CallRender ==
    /\ tCall = "none"
    /\ tCall' = "render"
    /\ tRet' = render(get_theme(tArgs.theme), tArgs.body_html, tArgs.toc_html,
                      tArgs.title, tArgs.image_count, tArgs.has_mermaid)
    /\ UNCHANGED <<tArgs, osVars, mermaidVars, imageVars, convVars, procVars, laterVars>>

RenderNext == CallRender

SpecRender == RenderInit /\ [][RenderNext]_vars

----------------------------------------------------------------------------
(* BatchProcessor (src/src/batch_processor.py): process_directory with its  *)
(* pool of worker threads, and process_list (SpecProcessor).               *)

\* Path.relative_to(base) of a path under base
relative_to(p, base) ==
    [abs |-> FALSE, parts |-> SubSeq(p.parts, Len(base.parts) + 1, Len(p.parts))]

\* base / p for a Path p
JoinPaths(base, p) ==
    IF p.abs THEN p ELSE [abs |-> base.abs, parts |-> base.parts \o p.parts]

\* Path.mkdir(parents=True, exist_ok=True): [ok, files, error].  It raises
\* when the path, or a directory it is to be made in, is there and is not a
\* directory.
mkdir(p, os) ==
    IF is_dir(LocationOf(p), os)
    THEN [ok |-> TRUE, files |-> os.files, error |-> <<>>]
    ELSE IF \E e \in DOMAIN os.files :
                IsPrefix(e, LocationOf(p)) /\ os.files[e].kind # "dir"
    THEN [ok |-> FALSE, files |-> os.files,
          error |-> IF LocationOf(p) \in DOMAIN os.files
                    THEN OSErrorStr("[Errno 17] File exists", p)
                    ELSE OSErrorStr("[Errno 20] Not a directory", p)]
    ELSE [ok |-> TRUE,
          files |-> [l \in DOMAIN os.files \cup {LocationOf(p)} |->
                        IF l \in DOMAIN os.files THEN os.files[l]
                        ELSE [kind |-> "dir", data |-> <<>>]],
          error |-> <<>>]

\* input_dir.rglob("*.md"), or input_dir.glob("*.md"): the entries under
\* the directory, or in it, whose name ends with .md, as paths.
glob_md(input_dir, recursive, os) ==
    { [abs |-> TRUE, parts |-> loc] :
        loc \in { l \in DOMAIN os.files :
                    /\ IsPrefix(LocationOf(input_dir), l)
                    /\ Len(l) > Len(LocationOf(input_dir))
                    /\ (recursive \/ Len(l) = Len(LocationOf(input_dir)) + 1)
                    /\ l[Len(l)][Len(l[Len(l)])] = ".md" } }

\* The orders a scan may list a set of files in.
Orders(S) ==
    { order \in [1..Cardinality(S) -> S] :
        \A i, j \in 1..Cardinality(S) : i # j => order[i] # order[j] }

\* output.stat().st_size / 1024 of an output that exists
size_kb(output, files) ==
    [bytes |-> IF files[LocationOf(output)].kind = "file"
                  /\ files[LocationOf(output)].data # <<>>
               THEN st_size(files[LocationOf(output)].data) ELSE 0,
     per |-> 1024]

\* The dict of lines 175-183 and the one of lines 187-195 and 123-130.
ResultDict(source, output, success, error, size, image_count) ==
    [source |-> PathStr(source), output |-> PathStr(output), success |-> success,
     error |-> error, size |-> size, image_count |-> image_count]

\* BatchProcessor._process_file: [raised, record, files].  The exception of
\* convert, and the one of output.stat() for an output that is not there,
\* end in the dict of the except clause.
process_file(source, output, theme, embed_images, process_mermaid, os, fault) ==
    TheValue({
        IF r.raised
        THEN [raised |-> FALSE,
              record |-> ResultDict(source, output, FALSE, r.exc, 0, 0),
              files |-> r.files]
        ELSE IF ~path_exists(output, [files |-> r.files,
                                      exists_raises |-> os.exists_raises])
        THEN [raised |-> FALSE,
              record |-> ResultDict(source, output, FALSE,
                                    OSErrorStr("[Errno 2] No such file or directory",
                                               output), 0, 0),
              files |-> r.files]
        ELSE [raised |-> FALSE,
              record |-> ResultDict(source, output, r.result.success,
                                    r.result.error_message,
                                    size_kb(output, r.files),
                                    r.result.image_count),
              files |-> r.files]
        : r \in {convert(source, Given(output), theme, embed_images,
                         process_mermaid, os, fault)} })

\* The directory of the sources, and the sources: one in the directory, one
\* in a directory of it that is named as the document of the first, one more.
InDir == PathOf(<<"/", "in">>)
AMd == JoinPath(InDir, <<"a", ".md">>)
BMd == JoinPath(InDir, <<"a", ".html", "/", "b", ".md">>)
CMd == JoinPath(InDir, <<"c", ".md">>)

\* At most this many worker threads.
MaxWorkers == 2

\* At most this many paths in the list of process_list.
MaxList == 2

\* A conversion fails in a stage of convert, or in none.
ProcFaults == {"none", "markdown"}

ProcFileSystems ==
    { a @@ b @@ c @@ Entry(OutDir, Dir) :
        a \in {NoEntry, Entry(AMd, File(<<"x">>)), Entry(AMd, Unreadable)},
        b \in {NoEntry, Entry(BMd, File(<<"x">>))},
        c \in {NoEntry, Entry(CMd, File(<<"x">>))} }

ProcInit ==
    /\ fs \in ProcFileSystems
    /\ existsRaises = FALSE
    /\ \/ pCall \in [op : {"process_directory"},
                     input_dir : {InDir},
                     output_dir : {NoPath, Given(OutDir)},
                     recursive : BOOLEAN,
                     max_workers : 1..MaxWorkers]
       \/ \E n \in 0..MaxList :
             pCall \in [op : {"process_list"},
                        file_list : [1..n -> {AMd, BMd, CMd}],
                        output_dir : {Given(OutDir)}]
    /\ pPc = "start"
    /\ pFiles = <<>>
    /\ pIndex = 0
    /\ pTasks = <<>>
    /\ pYielded = {}
    /\ pResults = <<>>
    /\ pExc = <<>>
    /\ mText = <<>> /\ mCall = "idle" /\ mRet = <<>>
    /\ pBefore = <<>> /\ sPc = "idle" /\ page = <<>>
    /\ rCall = <<>> /\ rRet = <<>>
    /\ stats = <<>> /\ file_records = <<>> /\ tracked = <<>>
    /\ xCall = <<>> /\ xPc = "idle" /\ xIndex = 0
    /\ success_count = 0 /\ xExit = 0
    /\ iText = <<>> /\ iCall = "idle" /\ iRet = <<>>
    /\ cCall = <<>> /\ cPc = "idle" /\ cResults = <<>>
    /\ cRaised = <<>> /\ cHistory = <<>> /\ fs0 = <<>>
    /\ tCall = "idle" /\ tArgs = <<>> /\ tRet = <<>>

\* lines 66-69: the output directory of process_directory
directory_output_dir ==
    IF pCall.output_dir.given THEN pCall.output_dir.path
    ELSE JoinPath(pCall.input_dir, <<"html_output">>)

\* lines 61-89 of process_directory: the directory is looked at and the
\* files are listed, in an order the scan decides.
DirectoryScan ==
    /\ pPc = "start"
    /\ pCall.op = "process_directory"
    /\ IF ~path_exists(pCall.input_dir, Os)
       THEN /\ pPc' = "raised"
            /\ pExc' = <<"ValueError">>
            /\ UNCHANGED <<fs, pFiles>>
       ELSE LET made == mkdir(directory_output_dir, Os) IN
            IF ~made.ok
            THEN /\ pPc' = "raised"
                 /\ pExc' = made.error
                 /\ UNCHANGED <<fs, pFiles>>
            ELSE /\ fs' = made.files
                 /\ pFiles' \in Orders(glob_md(pCall.input_dir, pCall.recursive, Os))
                 /\ pPc' = IF pFiles' = <<>> THEN "returned" ELSE "submit"
                 /\ UNCHANGED pExc
    /\ UNCHANGED <<pCall, pIndex, pTasks, pYielded, pResults, existsRaises,
                   mermaidVars, imageVars, convVars, themeVars,
                   laterVars>>

\* The output file of a source of process_directory (lines 98-99).
directory_output_file(md_file) ==
    JoinPaths(directory_output_dir,
              with_suffix(relative_to(md_file, pCall.input_dir), ".html"))

\* lines 96-110: one turn of the loop that submits.  The exception of mkdir
\* leaves the loop and the with statement.
Submit ==
    /\ pPc = "submit"
    /\ pIndex < Len(pFiles)
    /\ LET md_file == pFiles[pIndex + 1]
           output_file == directory_output_file(md_file)
           made == mkdir(parent(output_file), Os)
       IN IF made.ok
          THEN /\ fs' = made.files
               /\ pTasks' = Append(pTasks, [source |-> md_file, output |-> output_file,
                                            state |-> "queued", record |-> <<>>])
               /\ pIndex' = pIndex + 1
               /\ UNCHANGED <<pPc, pExc>>
          ELSE /\ pPc' = "unwind"
               /\ pExc' = made.error
               /\ UNCHANGED <<fs, pTasks, pIndex>>
    /\ UNCHANGED <<pCall, pFiles, pYielded, pResults, existsRaises,
                   mermaidVars, imageVars, convVars, themeVars,
                   laterVars>>

Running == {i \in 1..Len(pTasks) : pTasks[i].state = "running"}
Queued == {i \in 1..Len(pTasks) : pTasks[i].state = "queued"}

\* A worker thread of the executor that is free takes the oldest work item.
WorkerStart ==
    /\ pCall # <<>> /\ pCall.op = "process_directory"
    /\ Queued # {}
    /\ Cardinality(Running) < pCall.max_workers
    /\ LET i == CHOOSE k \in Queued : \A j \in Queued : k <= j IN
       pTasks' = [pTasks EXCEPT ![i].state = "running"]
    /\ UNCHANGED <<pCall, pPc, pFiles, pIndex, pYielded, pResults, pExc, osVars,
                   mermaidVars, imageVars, convVars, themeVars,
                   laterVars>>

\* A worker thread runs _process_file and sets the result of the future.
WorkerFinish ==
    /\ pCall # <<>> /\ pCall.op = "process_directory"
    /\ \E i \in Running : \E fault \in ProcFaults :
          LET done == process_file(pTasks[i].source, pTasks[i].output, "default",
                                   TRUE, TRUE, Os, fault)
          IN /\ pTasks' = [pTasks EXCEPT ![i].state = "done",
                                         ![i].record = done.record]
             /\ fs' = done.files
    /\ UNCHANGED <<pCall, pPc, pFiles, pIndex, pYielded, pResults, pExc,
                   existsRaises, mermaidVars, imageVars, convVars, themeVars,
                   laterVars>>

\* lines 114-132: one turn of the loop over as_completed, which yields a
\* future that is done and was not yielded before.
Collect ==
    /\ pPc = "submit"
    /\ pIndex = Len(pFiles)
    /\ \E i \in 1..Len(pTasks) :
          /\ pTasks[i].state = "done"
          /\ i \notin pYielded
          /\ pYielded' = pYielded \cup {i}
          /\ pResults' = Append(pResults, pTasks[i].record)
    /\ UNCHANGED <<pCall, pPc, pFiles, pIndex, pTasks, pExc, osVars,
                   mermaidVars, imageVars, convVars, themeVars,
                   laterVars>>

\* lines 134-138: as_completed is exhausted, the with statement is left and
\* self.results returned.
DirectoryReturn ==
    /\ pPc = "submit"
    /\ pIndex = Len(pFiles)
    /\ pYielded = 1..Len(pTasks)
    /\ pPc' = "returned"
    /\ UNCHANGED <<pCall, pFiles, pIndex, pTasks, pYielded, pResults, pExc, osVars,
                   mermaidVars, imageVars, convVars, themeVars,
                   laterVars>>

\* The with statement is left by an exception: shutdown(wait=True) waits for
\* the work items submitted, then the exception leaves process_directory.
Unwind ==
    /\ pPc = "unwind"
    /\ \A i \in 1..Len(pTasks) : pTasks[i].state = "done"
    /\ pPc' = "raised"
    /\ UNCHANGED <<pCall, pFiles, pIndex, pTasks, pYielded, pResults, pExc, osVars,
                   mermaidVars, imageVars, convVars, themeVars,
                   laterVars>>

\* lines 282-292 of process_list
ListStart ==
    /\ pPc = "start"
    /\ pCall.op = "process_list"
    /\ LET made == mkdir(pCall.output_dir.path, Os) IN
       IF made.ok
       THEN fs' = made.files /\ pPc' = "loop" /\ UNCHANGED pExc
       ELSE pPc' = "raised" /\ pExc' = made.error /\ UNCHANGED fs
    /\ pFiles' = pCall.file_list
    /\ UNCHANGED <<pCall, pIndex, pTasks, pYielded, pResults, existsRaises,
                   mermaidVars, imageVars, convVars, themeVars,
                   laterVars>>

\* lines 294-311: one turn of the loop of process_list; a file that does not
\* exist is passed over.
ListIterate ==
    /\ pPc = "loop"
    /\ pIndex < Len(pFiles)
    /\ LET md_file == pFiles[pIndex + 1]
           output_file == JoinPath(pCall.output_dir.path,
                                   NameOf(with_suffix(md_file, ".html")))
       IN IF ~path_exists(md_file, Os)
          THEN UNCHANGED <<fs, pResults>>
          ELSE \E fault \in ProcFaults :
                  LET done == process_file(md_file, output_file, "default",
                                           TRUE, TRUE, Os, fault)
                  IN /\ pResults' = Append(pResults, done.record)
                     /\ fs' = done.files
    /\ pIndex' = pIndex + 1
    /\ UNCHANGED <<pCall, pPc, pFiles, pTasks, pYielded, pExc, existsRaises,
                   mermaidVars, imageVars, convVars, themeVars,
                   laterVars>>

\* lines 313-316: return self.results
ListReturn ==
    /\ pPc = "loop"
    /\ pIndex = Len(pFiles)
    /\ pPc' = "returned"
    /\ UNCHANGED <<pCall, pFiles, pIndex, pTasks, pYielded, pResults, pExc, osVars,
                   mermaidVars, imageVars, convVars, themeVars,
                   laterVars>>

\* At most this many calls are made on one BatchProcessor.
MaxCalls == 2

\* The calls made on a processor that has returned from a call.
LaterCalls ==
    [op : {"process_directory"}, input_dir : {InDir}, output_dir : {NoPath},
     recursive : {FALSE}, max_workers : {1}]
    \cup [op : {"process_list"},
          file_list : {<<>>, <<AMd>>, <<CMd>>},
          output_dir : {Given(OutDir)}]

\* The caller calls process_directory or process_list on the processor
\* again: the locals of the call are new, self.results is the list that
\* __init__ made (line 34) with what the earlier calls appended.
CallAgain ==
    /\ pPc = "returned"
    /\ Len(pBefore) < MaxCalls - 1
    /\ pCall' \in LaterCalls
    /\ pPc' = "start"
    /\ pFiles' = <<>>
    /\ pIndex' = 0
    /\ pTasks' = <<>>
    /\ pYielded' = {}
    /\ pExc' = <<>>
    /\ pBefore' = Append(pBefore, pResults)
    /\ UNCHANGED <<pResults, osVars, mermaidVars, imageVars, convVars, themeVars,
                   scriptVars, reportVars, statsVars, cliVars>>

ProcNext ==
    \/ CallAgain
    \/ DirectoryScan
    \/ Submit
    \/ WorkerStart
    \/ WorkerFinish
    \/ Collect
    \/ DirectoryReturn
    \/ Unwind
    \/ ListStart
    \/ ListIterate
    \/ ListReturn

SpecProcessor == ProcInit /\ [][ProcNext]_vars

----------------------------------------------------------------------------
(* The processors applied to the HTML of the Markdown transform            *)
(* (SpecTransform).                                                        *)

\* The blocks of the Markdown texts: a paragraph, an image, a code span
\* with the syntax of an image, a diagram block, a fenced block with the
\* syntax of an image, a fenced block that holds a diagram block.
MdBlocks ==
    << <<"x">>,
       RefOf(<<"x">>, <<"a", ".jpg">>),
       <<Ticks>> \o RefOf(<<"x">>, <<"a", ".jpg">>) \o <<Ticks>>,
       <<F, M, NL, "x", NL, F>>,
       <<F, NL>> \o RefOf(<<"x">>, <<"a", ".jpg">>) \o <<NL, F>>,
       <<Tilde, NL, F, M, NL, "x", NL, F, NL, Tilde>> >>

\* A text has at most this many blocks.
MaxBlocks == 2

\* The texts of n blocks, a blank line between two blocks.
RECURSIVE MdTexts(_)
MdTexts(n) ==
    IF n = 0 THEN {<<>>}
    ELSE IF n = 1 THEN {MdBlocks[k] : k \in 1..Len(MdBlocks)}
    ELSE {t \o <<NL, NL>> \o MdBlocks[k] : t \in MdTexts(n - 1), k \in 1..Len(MdBlocks)}

TransformInit ==
    /\ \E n \in 0..MaxBlocks : tArgs \in [md_content : MdTexts(n)]
    /\ fs \in {NoEntry, Entry(JoinPath(BaseDir, <<"a", ".jpg">>), File(<<1>>))}
    /\ existsRaises = FALSE
    /\ tCall = "none"
    /\ tRet = <<>>
    /\ mText = <<>> /\ mCall = "idle" /\ mRet = <<>>
    /\ iText = <<>> /\ iCall = "idle" /\ iRet = <<>>
    /\ cCall = <<>> /\ cPc = "idle" /\ cResults = <<>>
    /\ cRaised = <<>> /\ cHistory = <<>> /\ fs0 = <<>>
    /\ pCall = <<>> /\ pPc = "idle" /\ pFiles = <<>> /\ pIndex = 0
    /\ pTasks = <<>> /\ pYielded = {} /\ pResults = <<>> /\ pExc = <<>>
    /\ pBefore = <<>> /\ sPc = "idle" /\ page = <<>>
    /\ rCall = <<>> /\ rRet = <<>>
    /\ stats = <<>> /\ file_records = <<>> /\ tracked = <<>>
    /\ xCall = <<>> /\ xPc = "idle" /\ xIndex = 0
    /\ success_count = 0 /\ xExit = 0

\* ImageProcessor().process(md.convert(md_content), base_dir)
CallImageOnHtml ==
    /\ tCall = "none"
    /\ tCall' = "image"
    /\ LET html_body == markdown_convert(tArgs.md_content).html_body
           processed == ImageProcessor_process(html_body, BaseDir, Os)
       IN tRet' = [html_body |-> html_body, text |-> processed.text,
                   count |-> processed.count]
    /\ UNCHANGED <<tArgs, osVars, mermaidVars, imageVars, convVars, procVars, laterVars>>

\* MermaidProcessor().process(md.convert(md_content))
CallMermaidOnHtml ==
    /\ tCall = "none"
    /\ tCall' = "mermaid"
    /\ LET html_body == markdown_convert(tArgs.md_content).html_body
       IN tRet' = [html_body |-> html_body,
                   text |-> MermaidProcessor_process(html_body), count |-> 0]
    /\ UNCHANGED <<tArgs, osVars, mermaidVars, imageVars, convVars, procVars, laterVars>>

TransformNext ==
    \/ CallImageOnHtml
    \/ CallMermaidOnHtml

SpecTransform == TransformInit /\ [][TransformNext]_vars

----------------------------------------------------------------------------
(* Markdown's fenced code blocks, the vocabulary of the claims about       *)
(* MermaidProcessor: a block opens with a line F + tag, the tag being a    *)
(* word or empty, and closes with the next line that is F alone.           *)

RECURSIVE SplitLines(_)
SplitLines(s) ==
    LET k == FirstIndexOf(s, NL, 1) IN
    IF k = 0 THEN <<s>>
    ELSE <<SubSeq(s, 1, k - 1)>> \o SplitLines(SubSeq(s, k + 1, Len(s)))

IsOpeningFence(line) ==
    /\ Len(line) >= 1
    /\ line[1] = F
    /\ \A k \in 2..Len(line) : line[k] \in {M, A}

\* The fenced blocks of a sequence of lines from line i on, in order.
RECURSIVE FencedBlocksFrom(_, _)
FencedBlocksFrom(lines, i) ==
    IF i > Len(lines) THEN <<>>
    ELSE LET c == FirstIndexOf(lines, <<F>>, i + 1) IN
         IF IsOpeningFence(lines[i]) /\ c # 0
         THEN <<[tag |-> Tail(lines[i]), body |-> SubSeq(lines, i + 1, c - 1)]>>
              \o FencedBlocksFrom(lines, c + 1)
         ELSE FencedBlocksFrom(lines, i + 1)

FencedBlocks(s) == FencedBlocksFrom(SplitLines(s), 1)

\* The text of a sequence of lines.
RECURSIVE JoinLines(_)
JoinLines(lines) ==
    IF lines = <<>> THEN <<>>
    ELSE IF Len(lines) = 1 THEN lines[1]
    ELSE lines[1] \o <<NL>> \o JoinLines(Tail(lines))

\* The bodies of the blocks labeled mermaid, in source order.
RECURSIVE MermaidBodiesOf(_)
MermaidBodiesOf(blocks) ==
    IF blocks = <<>> THEN <<>>
    ELSE (IF Head(blocks).tag = <<M>> THEN <<JoinLines(Head(blocks).body)>> ELSE <<>>)
         \o MermaidBodiesOf(Tail(blocks))

MermaidBodies(s) == MermaidBodiesOf(FencedBlocks(s))

\* The first index j >= k with s[j] = NL and s[j+1] = DivClose, or 0.
RECURSIVE WrapperClose(_, _)
WrapperClose(s, k) ==
    IF k + 1 > Len(s) THEN 0
    ELSE IF s[k] = NL /\ s[k + 1] = DivClose THEN k
    ELSE WrapperClose(s, k + 1)

\* The contents of the <div class="mermaid"> wrappers of a text, in order.
RECURSIVE WrapperBodiesFrom(_, _)
WrapperBodiesFrom(s, k) ==
    IF k + 1 > Len(s) THEN <<>>
    ELSE IF s[k] = DivOpen /\ s[k + 1] = NL /\ WrapperClose(s, k + 1) # 0
         THEN LET c == WrapperClose(s, k + 1) IN
              <<SubSeq(s, k + 2, c - 1)>> \o WrapperBodiesFrom(s, c + 2)
    ELSE WrapperBodiesFrom(s, k + 1)

WrapperBodies(s) == WrapperBodiesFrom(s, 1)

----------------------------------------------------------------------------
(* Claims about MermaidProcessor, checked under SpecMermaid. *)

\* C8: for every text x, has_mermaid(process(x)) is false: no text matching
\* the fenced diagram pattern remains after one rewrite pass.
C8_NoDiagramLeft ==
    mCall = "process" => ~has_mermaid(mRet)

\* C9: every fenced block that is not labeled mermaid appears in the output
\* of process with its opening fence, body and closing fence unchanged.
C9_OtherBlocksKept ==
    mCall = "process" =>
        LET before == FencedBlocks(mText)
            after == FencedBlocks(mRet)
        IN \A k \in 1..Len(before) :
               before[k].tag # <<M>> =>
                   \E n \in 1..Len(after) : after[n] = before[k]

\* C10: process replaces every fenced block labeled mermaid, an empty one
\* included, by one wrapper holding the body of the block as written, in
\* source order, and extract_diagrams returns the same bodies in that order.
C10_EveryDiagramWrapped ==
    /\ mCall = "process" => WrapperBodies(mRet) = MermaidBodies(mText)
    /\ mCall = "extract_diagrams" => mRet = MermaidBodies(mText)

----------------------------------------------------------------------------
(* Claims about HTMLConverter, checked under Spec and SpecBatch. *)

RECURSIVE ContainsFrom(_, _, _)
ContainsFrom(s, sub, k) ==
    IF k + Len(sub) - 1 > Len(s) THEN FALSE
    ELSE SubSeq(s, k, k + Len(sub) - 1) = sub \/ ContainsFrom(s, sub, k + 1)

\* sub occurs in s
Contains(s, sub) == ContainsFrom(s, sub, 1)

\* The stage an injected fault raises in.
FaultStage(fault) == IF fault = "write_partial" THEN "write" ELSE fault

\* The location holds something (a file, a directory) in the file system.
ExistsIn(loc, files) ==
    \/ IsPrefix(loc, Cwd)
    \/ IsPrefix(loc, LocationOf(BaseDir))
    \/ \E e \in DOMAIN files : IsPrefix(loc, e)

\* A location holds the same in two file systems: nothing, a directory, or
\* a file of the same kind and content.
SameAt(loc, before, after) ==
    /\ loc \in DOMAIN before <=> loc \in DOMAIN after
    /\ loc \in DOMAIN before =>
          /\ before[loc].kind = after[loc].kind
          /\ before[loc].kind # "dir" => before[loc].data = after[loc].data

\* C1: convert never raises to its caller: every call returns a
\* ConversionResult, and when a stage of the pipeline raised, the result has
\* success = false and the message of that exception as its error_message.
C1_ConvertNeverRaises ==
    (cCall # <<>> /\ cCall.op = "convert" /\ cPc = "done") =>
        /\ ~cRaised.raised
        /\ Len(cResults) = 1
        /\ cHistory[1].fault # "none" =>
              /\ ~cResults[1].success
              /\ cResults[1].error_message = StageError(FaultStage(cHistory[1].fault))

\* C2: when nothing exists at the source location when convert is called,
\* convert returns a result with success = false whose error message
\* contains the source location, and what is at the destination is the same
\* after the call as before it.
C2_NotFoundWritesNothing ==
    (/\ cCall # <<>> /\ cCall.op = "convert" /\ cPc = "done"
     /\ ~ExistsIn(LocationOf(cCall.source_path), fs0)) =>
        /\ ~cRaised.raised
        /\ Len(cResults) = 1
        /\ ~cResults[1].success
        /\ Contains(cResults[1].error_message, PathStr(cCall.source_path))
        /\ LET destination == LocationOf(cResults[1].output_path) IN
           SameAt(destination, fs0, fs)

\* A call of convert on a missing source has returned, an older document
\* being at its destination.
C2_Witness ==
    /\ cCall # <<>> /\ cCall.op = "convert" /\ cPc = "done"
    /\ cCall.source_path = DocMd
    /\ cCall.output_path = NoPath
    /\ ~ExistsIn(LocationOf(DocMd), fs0)
    /\ LocationOf(DocHtml) \in DOMAIN fs0
    /\ fs0[LocationOf(DocHtml)].kind = "file"
    /\ Len(cResults) = 1
    /\ cResults[1].output_path = DocHtml

\* The number of occurrences of a token in a text.
RECURSIVE Count(_, _)
Count(s, x) ==
    IF s = <<>> THEN 0
    ELSE (IF Head(s) = x THEN 1 ELSE 0) + Count(Tail(s), x)

\* One call of convert has returned a result.
ConvertReturned ==
    /\ cCall # <<>> /\ cCall.op = "convert" /\ cPc = "done"
    /\ ~cRaised.raised /\ Len(cResults) = 1

\* The document at the destination of the result.
WrittenDocument == fs[LocationOf(cResults[1].output_path)].data

KnownThemes == {"default", "minimal", "professional"}

\* C11: a conversion requested with a theme identifier outside default,
\* minimal, professional ends as the same conversion requested with
\* "default" does, and when it succeeds its document carries the styles and
\* the scripts of the default theme; a conversion requested with one of the
\* three identifiers carries the styles and scripts of that theme, and the
\* three differ.
C11_UnknownThemeIsDefault ==
    ConvertReturned =>
        LET as_default ==
                convert(cCall.source_path, cCall.output_path, "default",
                        cCall.embed_images, cCall.process_mermaid,
                        [files |-> fs0, exists_raises |-> existsRaises],
                        cHistory[1].fault)
        IN /\ cCall.theme \notin KnownThemes =>
                 /\ cResults[1] = as_default.result
                 /\ cResults[1].success =>
                       /\ WrittenDocument.styles = get_styles("default")
                       /\ WrittenDocument.scripts
                             = get_scripts("default", cCall.process_mermaid)
           /\ (cCall.theme \in KnownThemes /\ cResults[1].success) =>
                 /\ WrittenDocument.styles = get_styles(cCall.theme)
                 /\ WrittenDocument.scripts
                       = get_scripts(cCall.theme, cCall.process_mermaid)
                 /\ \A other \in KnownThemes \ {cCall.theme} :
                       WrittenDocument.styles # get_styles(other)

\* A conversion requested with the theme "nonexistent" has succeeded, with
\* the diagrams toggle on.
C11_Witness ==
    /\ ConvertReturned
    /\ cCall.theme = "nonexistent"
    /\ cCall.process_mermaid
    /\ cResults[1].success

\* The text of the source when the call started.
SourceText == fs0[LocationOf(cCall.source_path)].data

\* The scripts of a document include the bootstrap script.
HasBootstrap(document) == Contains(document.scripts, get_mermaid_script)

\* C12: the document of a successful conversion contains the bootstrap
\* script if and only if the source text contains a diagram block, that is
\* has_mermaid is true for it.
C12_BootstrapIffDiagram ==
    (ConvertReturned /\ cResults[1].success) =>
        (HasBootstrap(WrittenDocument) <=> has_mermaid(SourceText))

\* The source is a file that holds the empty text.
EmptySource ==
    /\ LocationOf(cCall.source_path) \in DOMAIN fs0
    /\ fs0[LocationOf(cCall.source_path)] = File(<<>>)

\* C14: the conversion of an empty Markdown document succeeds when no stage
\* is made to fail and its destination can be written, and the document it
\* writes has an empty content region and no TOC region.
C14_EmptyDocument ==
    (ConvertReturned /\ EmptySource) =>
        /\ (/\ cHistory[1].fault = "none"
            /\ write_text(cResults[1].output_path, <<>>,
                          [files |-> fs0, exists_raises |-> existsRaises]).ok)
              => cResults[1].success
        /\ cResults[1].success =>
              /\ WrittenDocument.body = <<>>
              /\ WrittenDocument.toc_section = <<>>
              /\ Contains(document_text(WrittenDocument), <<ContentOpen, DivClose>>)
              /\ Count(document_text(WrittenDocument), TocSidebarOpen) = 0
              /\ Count(document_text(WrittenDocument), TocHeading) = 0

\* The conversion of an empty document, both rewrites requested, has
\* succeeded.
C14_Witness ==
    /\ ConvertReturned /\ EmptySource
    /\ cCall.embed_images /\ cCall.process_mermaid
    /\ cResults[1].success
    /\ WrittenDocument.body = <<>>

\* A name with its extension replaced by .html, or with .html appended when
\* it has none.
HtmlName(name) ==
    IF Len(name) >= 2 /\ name[Len(name)] \in Extensions
    THEN SubSeq(name, 1, Len(name) - 1) \o <<".html">>
    ELSE name \o <<".html">>

\* The destination of a call: the one its caller gave, or the source with its
\* name changed.
ExpectedDestination ==
    IF cCall.output_path.given THEN cCall.output_path.path
    ELSE [abs |-> cCall.source_path.abs,
          parts |-> SubSeq(cCall.source_path.parts, 1,
                           Len(cCall.source_path.parts) - 1)
                    \o <<HtmlName(NameOf(cCall.source_path))>>]

\* C15: the destination a result reports is the one the caller gave, or else
\* the source with its extension replaced by .html, whether the result is a
\* success, a source not found or another failure; a success has written its
\* document there.
C15_ReportedDestination ==
    ConvertReturned =>
        /\ cResults[1].output_path = ExpectedDestination
        /\ cResults[1].success =>
              /\ LocationOf(ExpectedDestination) \in DOMAIN fs
              /\ fs[LocationOf(ExpectedDestination)].kind = "file"
              /\ fs[LocationOf(ExpectedDestination)].data.title = stem(cCall.source_path)

\* A conversion called without a destination has succeeded and its document
\* is beside the source.
C15_Witness ==
    /\ ConvertReturned
    /\ ~cCall.output_path.given
    /\ cCall.source_path = DocMd
    /\ cResults[1].success
    /\ cResults[1].output_path = DocHtml
    /\ fs[LocationOf(DocHtml)] # fs0[LocationOf(DocMd)]

\* The file system when the call started, as the environment of a stage.
Os0 == [files |-> fs0, exists_raises |-> existsRaises]

\* C16: the two toggles are independent.  With embed_images off the image
\* stage is not entered, the count is 0 and the text the next stage receives
\* is the source text, whatever process_mermaid is; with process_mermaid off
\* the diagram stage is not entered and the text the Markdown transform
\* receives is the one the image stage left, whatever embed_images is.
C16_TogglesIndependent ==
    ConvertReturned =>
        /\ ~cCall.embed_images =>
              /\ cResults[1].image_count = 0
              /\ ~Contains(StageNames(cHistory[1].trace), <<"image">>)
              /\ cResults[1].success =>
                    WrittenDocument.body =
                        markdown_convert(
                            IF cCall.process_mermaid
                            THEN MermaidProcessor_process(SourceText)
                            ELSE SourceText).html_body
        /\ ~cCall.process_mermaid =>
              /\ ~Contains(StageNames(cHistory[1].trace), <<"mermaid">>)
              /\ cResults[1].success =>
                    /\ WrittenDocument.body =
                          markdown_convert(
                              IF cCall.embed_images
                              THEN ImageProcessor_process(
                                       SourceText, parent(cCall.source_path), Os0).text
                              ELSE SourceText).html_body
                    /\ cResults[1].image_count =
                          IF cCall.embed_images
                          THEN ImageProcessor_process(
                                   SourceText, parent(cCall.source_path), Os0).count
                          ELSE 0

\* A document with an image that is there and a diagram has been converted
\* with embed_images off and process_mermaid on.
C16_Witness ==
    /\ ConvertReturned
    /\ ~cCall.embed_images /\ cCall.process_mermaid
    /\ cResults[1].success
    /\ SourceText = DiagramDoc
    /\ can_open(JoinPath(BaseDir, <<"a", ".jpg">>), Os0)
    /\ Contains(WrittenDocument.body, <<DivOpen>>)
    /\ Contains(WrittenDocument.body, md_image(<<"x">>, <<"a", ".jpg">>))

\* The stages of a call in their order, those of the two toggles that are
\* off left out.
StageOrder ==
    <<"exists", "read">>
    \o (IF cCall.embed_images THEN <<"image">> ELSE <<>>)
    \o (IF cCall.process_mermaid THEN <<"mermaid">> ELSE <<>>)
    \o <<"markdown", "template", "write", "stat">>

\* The input of the stage of that name in the trace of the call.
InputOf(name) ==
    cHistory[1].trace[CHOOSE k \in 1..Len(cHistory[1].trace) :
                          cHistory[1].trace[k].stage = name].input

\* C20: the stages one call of convert has entered are a beginning of the
\* fixed order exists, read, image, mermaid, markdown, template, write,
\* stat, every one at most once; the call that fails has entered no stage
\* after the one that failed and the call that succeeds has entered them
\* all; the image rewrite is handed the text as read and the diagram rewrite
\* the text the image rewrite left; the file system changes at the
\* destination only, and only when the write stage was entered.
C20_StagesInOrder ==
    (cCall # <<>> /\ cCall.op = "convert" /\ cPc = "done") =>
        LET names == StageNames(cHistory[1].trace) IN
        /\ Len(names) <= Len(StageOrder)
        /\ names = SubSeq(StageOrder, 1, Len(names))
        /\ \A stage \in {"image", "mermaid", "markdown", "template", "write", "stat"} :
              (cHistory[1].fault = stage /\ Contains(names, <<stage>>))
                  => names[Len(names)] = stage
        /\ (ConvertReturned /\ cResults[1].success) <=>
              (names = StageOrder /\ cHistory[1].fault # "stat")
        /\ Contains(names, <<"image">>) => InputOf("image") = SourceText
        /\ Contains(names, <<"mermaid">>) =>
              InputOf("mermaid") =
                  IF cCall.embed_images
                  THEN ImageProcessor_process(SourceText, parent(cCall.source_path),
                                              Os0).text
                  ELSE SourceText
        /\ \A loc \in DOMAIN fs \cup DOMAIN fs0 :
              ~SameAt(loc, fs0, fs) =>
                  /\ Contains(names, <<"write">>)
                  /\ loc = LocationOf(ExpectedDestination)

\* A document with an image and a diagram has gone through the eight stages.
C20_Witness ==
    /\ cCall # <<>> /\ cCall.op = "convert" /\ cPc = "done"
    /\ cCall.embed_images /\ cCall.process_mermaid
    /\ ConvertReturned /\ cResults[1].success
    /\ SourceText = DiagramDoc
    /\ cResults[1].image_count = 1
    /\ Len(cHistory[1].trace) = 8
    /\ InputOf("mermaid") # SourceText

\* C3: convert_batch over n source paths returns n results without raising,
\* results[i] being the result of converting source_paths[i], whatever the
\* other files did.
C3_BatchReturnsAllResults ==
    (cCall # <<>> /\ cCall.op = "convert_batch" /\ cPc = "done") =>
        /\ ~cRaised.raised
        /\ Len(cResults) = Len(cCall.source_paths)
        /\ \A i \in 1..Len(cResults) :
              cResults[i] =
                  convert(cCall.source_paths[i],
                          batch_output_path(cCall.source_paths[i], cCall.output_dir),
                          cCall.theme, cCall.embed_images, cCall.process_mermaid,
                          [files |-> cHistory[i].before, exists_raises |-> existsRaises],
                          cHistory[i].fault).result

----------------------------------------------------------------------------
(* Claims about the themes, checked under SpecRender. *)

\* C13: for each of the three themes the document render returns has no
\* toc-sidebar element and no TOC heading when the TOC fragment is empty,
\* and exactly one TOC region, holding the fragment, when it is not.
C13_TocRegionIffFragment ==
    tCall = "render" =>
        LET text == document_text(tRet) IN
        IF tArgs.toc_html = <<>>
        THEN Count(text, TocSidebarOpen) = 0 /\ Count(text, TocHeading) = 0
        ELSE /\ Count(text, TocSidebarOpen) = 1
             /\ Count(text, TocHeading) = 1
             /\ Contains(text, <<TocSidebarOpen, TocHeading>> \o tArgs.toc_html
                               \o <<DivClose>>)

\* The professional theme has rendered a document with a TOC fragment that
\* has an entry.
C13_Witness ==
    /\ tCall = "render"
    /\ tArgs.theme = "professional"
    /\ Len(tArgs.toc_html) > 4
    /\ Count(document_text(tRet), TocSidebarOpen) = 1

----------------------------------------------------------------------------
(* Claims about BatchProcessor, checked under SpecProcessor. *)

\* The records of self.results whose source is the path.
RecordsOf(p) == {k \in 1..Len(pResults) : pResults[k].source = PathStr(p)}

\* C17: process_directory on a new processor, in every interleaving of its
\* worker threads and whatever conversions fail, leaves by returning, after
\* every conversion it submitted has finished, and self.results then holds
\* exactly one record for each file the scan matched.
C17_OneRecordPerMatchedFile ==
    (/\ pCall # <<>> /\ pCall.op = "process_directory"
     /\ pFiles # <<>>
     /\ pPc \in {"returned", "raised"}) =>
        /\ pPc = "returned"
        /\ Len(pTasks) = Len(pFiles)
        /\ \A i \in 1..Len(pTasks) : pTasks[i].state = "done"
        /\ Len(pResults) = Len(pFiles)
        /\ \A k \in 1..Len(pFiles) : Cardinality(RecordsOf(pFiles[k])) = 1

\* C18: process_list adds one record for every path of file_list, a failed
\* one for a path that does not exist.
C18_ListTallyCoversEveryFile ==
    (/\ pCall # <<>> /\ pCall.op = "process_list"
     /\ pPc = "returned") =>
        /\ Len(pResults) = Len(pCall.file_list)
        /\ \A k \in 1..Len(pCall.file_list) :
              ~path_exists(pCall.file_list[k], Os) =>
                  \E n \in RecordsOf(pCall.file_list[k]) : ~pResults[n].success

----------------------------------------------------------------------------
(* Claims about the processors and the transform, checked under            *)
(* SpecTransform.                                                          *)

\* C19: ImageProcessor.process and MermaidProcessor.process return the HTML
\* body of the Markdown transform as it is, the image count being 0,
\* whatever the Markdown text is.
C19_ProcessorsLeaveHtml ==
    tCall \in {"image", "mermaid"} =>
        /\ tRet.text = tRet.html_body
        /\ tRet.count = 0

----------------------------------------------------------------------------
(* The vocabulary of the claims about ImageProcessor. *)

StartsWith(s, prefix) == Len(s) >= Len(prefix) /\ SubSeq(s, 1, Len(prefix)) = prefix

\* The path of a reference is a network location or already inlined data.
IsNetworkOrInline(image_path) ==
    \/ StartsWith(image_path, <<"http:", "/", "/">>)
    \/ StartsWith(image_path, <<"https:", "/", "/">>)
    \/ StartsWith(image_path, <<"data:">>)

\* The candidates of the resolution of a path, in the order of the claim:
\* the path as it is, the base directory joined with the path, with the
\* filename only, with the path stripped of leading slashes, then the
\* filename under images, img, assets, static and media.
Candidates(image_path) ==
    LET filename == NameOf(PathOf(image_path)) IN
    << PathOf(image_path),
       JoinPath(BaseDir, image_path),
       JoinPath(BaseDir, filename),
       JoinPath(BaseDir, lstrip_slash(image_path)),
       JoinPath(JoinPath(BaseDir, <<"images">>), filename),
       JoinPath(JoinPath(BaseDir, <<"img">>), filename),
       JoinPath(JoinPath(BaseDir, <<"assets">>), filename),
       JoinPath(JoinPath(BaseDir, <<"static">>), filename),
       JoinPath(JoinPath(BaseDir, <<"media">>), filename) >>

\* The path is an existing file (readable or not), not a directory.
IsFileAt(p) ==
    /\ LocationOf(p) \in DOMAIN fs
    /\ fs[LocationOf(p)].kind \in {"file", "unreadable"}

IsReadableFileAt(p) ==
    /\ LocationOf(p) \in DOMAIN fs
    /\ fs[LocationOf(p)].kind = "file"

Min(S) == CHOOSE x \in S : \A y \in S : x <= y

\* The candidate a path resolves to: the first that is an existing file;
\* 0 when none is.
ResolvedCandidate(image_path) ==
    LET c == Candidates(image_path)
        existing == {k \in 1..Len(c) : IsFileAt(c[k])}
    IN IF existing = {} THEN 0 ELSE Min(existing)

ResolvesToReadableFile(image_path) ==
    /\ ~IsNetworkOrInline(image_path)
    /\ ResolvedCandidate(image_path) # 0
    /\ IsReadableFileAt(Candidates(image_path)[ResolvedCandidate(image_path)])

\* The references of the argument and of the text process returned.
RefsIn == image_findall(iText, 1)
RefsOut == image_findall(iRet.text, 1)
Rewritten == {k \in 1..Len(RefsIn) : RefsOut[k] # RefsIn[k]}

----------------------------------------------------------------------------
(* Claims about ImageProcessor, checked under SpecImage. *)

\* C4: when the path of every image reference of the text starts with
\* http://, https:// or data:, process returns the text unchanged and a
\* count of 0, and looks nothing up in the file system.
C4_OnlineUntouched ==
    (/\ iCall = "process"
     /\ \A k \in 1..Len(RefsIn) : IsNetworkOrInline(RefsIn[k].path))
    => /\ ~iRet.raised
       /\ iRet.text = iText
       /\ iRet.count = 0
       /\ iRet.stats = <<>>

\* C4 witness: a text with an http, an https or a data reference and
\* another online reference was processed over a file system with an entry.
C4_Witness ==
    /\ iCall = "process"
    /\ Len(RefsIn) = 2
    /\ \A k \in 1..Len(RefsIn) : IsNetworkOrInline(RefsIn[k].path)
    /\ RefsIn[1].path # RefsIn[2].path
    /\ RefsIn[2].path[1] = "data:"
    /\ fs # <<>>

\* C5: the count process returns is the number of references it rewrote: a
\* reference that resolves to a readable file through one of the resolution
\* strategies is rewritten to a path that begins with data: and counted
\* once, and no reference left unchanged is counted.
C5_CountIsRewritten ==
    (iCall = "process" /\ ~iRet.raised)
    => /\ Len(RefsOut) = Len(RefsIn)
       /\ iRet.count = Cardinality(Rewritten)
       /\ \A k \in 1..Len(RefsIn) :
              /\ RefsOut[k].alt = RefsIn[k].alt
              /\ ResolvesToReadableFile(RefsIn[k].path)
                    => (k \in Rewritten /\ StartsWith(RefsOut[k].path, <<"data:">>))

\* C6: resolution returns the first candidate, in the fixed order, that is
\* an existing file; a candidate that exists but is a directory does not
\* stop later candidates from being tried.
C6_EarliestFileWins ==
    (iCall = "_find_image_file" /\ ~iRet.ret.raised)
    => LET c == Candidates(iRet.image_path)
           files == {k \in 1..Len(c) : IsFileAt(c[k])}
       IN files # {} => (iRet.ret.found /\ iRet.ret.path = c[Min(files)])

\* C7: a reference that cannot be resolved to an existing file, or whose
\* file cannot be read, is left as written and not counted, and process
\* still returns normally, having processed the other references.
C7_FailuresAreLocal ==
    iCall = "process"
    => /\ ~iRet.raised
       /\ Len(RefsOut) = Len(RefsIn)
       /\ iRet.count = Cardinality(Rewritten)
       /\ \A k \in 1..Len(RefsIn) :
              IF ResolvesToReadableFile(RefsIn[k].path)
              THEN k \in Rewritten
              ELSE RefsOut[k] = RefsIn[k]

-----------------------------------------------------------------------------
(* The bootstrap script of MermaidProcessor.get_mermaid_script
   (mermaid_processor.py 65-150), run by a browser in a page that render
   made.  The page holds the script elements the script has appended to
   the head, the global `mermaid` and the diagram containers; the browser
   ends each fetch with success or failure and then runs the handler of the
   event. *)

\* The sources, in the order of the list.
cdns == <<"cdn.bootcdn.net", "unpkg.com", "cdn.jsdelivr.net">>

\* A page holds at most this many diagram containers.
MaxContainers == 2

Sp == " "
\* The characters of a start tag, one token.
B == "<b>"
PreOpen == "<pre>"
PreClose == "</pre>"

\* String.prototype.trim
RECURSIVE trim_start(_)
trim_start(text) ==
    IF text # <<>> /\ Head(text) \in {NL, Sp}
    THEN trim_start(Tail(text))
    ELSE text

RECURSIVE trim_end(_)
trim_end(text) ==
    IF text # <<>> /\ text[Len(text)] \in {NL, Sp}
    THEN trim_end(SubSeq(text, 1, Len(text) - 1))
    ELSE text

trim(text) == trim_end(trim_start(text))

\* A node of a container: its tag, the text in it and the tags of the
\* elements in it.
Node(tag, text, inside) == [tag |-> tag, text |-> text, inside |-> inside]

\* Node.textContent of a container.
textContent(element) ==
    Concat([i \in 1..Len(element.children) |-> element.children[i].text])

\* The setter of Element.innerHTML on PreOpen + text + PreClose: the HTML
\* parser reads the text as markup, so the characters of a tag make an
\* element inside the pre element and are no text of it.
set_innerHTML(markup) ==
    LET inner == SubSeq(markup, 2, Len(markup) - 1)
    IN  <<Node("pre",
               SelectSeq(inner, LAMBDA t : t # B),
               SelectSeq(inner, LAMBDA t : t = B))>>

\* The body of the forEach of handleMermaidFallback.
fallback_element(element) ==
    IF "mermaid-fallback" \notin element.classList
    THEN LET text == trim(textContent(element))
         IN  [element EXCEPT
                 !.classList = @ \cup {"mermaid-fallback"},
                 !.children = set_innerHTML(<<PreOpen>> \o text \o <<PreClose>>),
                 !.wrapped = @ + 1]
    ELSE element

\* handleMermaidFallback; page.fallbacks keeps, of every run of it, whether
\* mermaidLoadFailed was set and which sources had failed.
handleMermaidFallback(w) ==
    [w EXCEPT
        !.elements = [i \in 1..Len(w.elements) |-> fallback_element(w.elements[i])],
        !.fallbacks = Append(@,
            [load_failed |-> w.mermaidLoadFailed,
             failed |-> {i \in 1..Len(w.head) : w.head[i].state = "error fired"}])]

\* loadScript: a script element is appended to the head and fetched.
loadScript(w, url) ==
    [w EXCEPT !.head = Append(@, [src |-> url, state |-> "fetching"])]

\* initMermaid
initMermaid(w) ==
    IF w.mermaid # "undefined"
    THEN IF w.mermaid = "throws" THEN handleMermaidFallback(w) ELSE w
    ELSE w

\* tryNextCDN; currentIndex counts from 0.
tryNextCDN(w) ==
    IF w.currentIndex >= Len(cdns)
    THEN handleMermaidFallback([w EXCEPT !.mermaidLoadFailed = TRUE])
    ELSE loadScript(w, cdns[w.currentIndex + 1])

\* An onError callback that asks for the same source again.
onError_again(w) == tryNextCDN(w)

\* The onSuccess callback tryNextCDN passes to loadScript.
onSuccess(w) == initMermaid([w EXCEPT !.loaded = TRUE])

\* The onError callback tryNextCDN passes to loadScript.
onError(w) == tryNextCDN([w EXCEPT !.currentIndex = @ + 1])

\* The texts of a diagram container in the page.
ContainerTexts ==
    {<<NL, A, NL>>, <<NL, A, Sp, A, NL>>, <<NL, A, B, A, NL>>}

Container(text) ==
    [classList |-> {"mermaid"},
     children |-> <<Node("#text", text, <<>>)>>,
     raw |-> text,
     wrapped |-> 0]

ScriptInit ==
    /\ sPc = "parsed"
    /\ \E n \in 0..MaxContainers :
          page \in [loaded : {FALSE},
                    currentIndex : {0},
                    mermaidLoadFailed : {FALSE},
                    head : {<<>>},
                    mermaid : {"undefined"},
                    elements : [1..n -> {Container(text) : text \in ContainerTexts}],
                    fallbacks : {<<>>}]
    /\ fs = <<>> /\ existsRaises = FALSE
    /\ mText = <<>> /\ mCall = "idle" /\ mRet = <<>>
    /\ iText = <<>> /\ iCall = "idle" /\ iRet = <<>>
    /\ cCall = <<>> /\ cPc = "idle" /\ cResults = <<>>
    /\ cRaised = <<>> /\ cHistory = <<>> /\ fs0 = <<>>
    /\ tCall = "idle" /\ tArgs = <<>> /\ tRet = <<>>
    /\ pCall = <<>> /\ pPc = "idle" /\ pFiles = <<>> /\ pIndex = 0
    /\ pTasks = <<>> /\ pYielded = {} /\ pResults = <<>> /\ pExc = <<>>
    /\ pBefore = <<>>
    /\ rCall = <<>> /\ rRet = <<>>
    /\ stats = <<>> /\ file_records = <<>> /\ tracked = <<>>
    /\ xCall = <<>> /\ xPc = "idle" /\ xIndex = 0
    /\ success_count = 0 /\ xExit = 0

ScriptIdle ==
    UNCHANGED <<mermaidVars, osVars, imageVars, convVars, themeVars, procVars,
                pBefore, reportVars, statsVars, cliVars>>

\* The script runs: line 148, the first tryNextCDN.
RunScript ==
    /\ sPc = "parsed"
    /\ sPc' = "running"
    /\ page' = tryNextCDN(page)
    /\ ScriptIdle

\* The fetch of a script element ends well: the script is run, which may
\* define the global mermaid, and the load event is queued.
FetchSucceeds ==
    /\ sPc = "running"
    /\ \E i \in 1..Len(page.head) :
          /\ page.head[i].state = "fetching"
          /\ \E global \in {"undefined", "works", "throws"} :
                page' = [page EXCEPT !.head[i].state = "loaded",
                                     !.mermaid = global]
    /\ UNCHANGED sPc
    /\ ScriptIdle

\* The fetch of a script element fails: the error event is queued.
FetchFails ==
    /\ sPc = "running"
    /\ \E i \in 1..Len(page.head) :
          /\ page.head[i].state = "fetching"
          /\ page' = [page EXCEPT !.head[i].state = "failed"]
    /\ UNCHANGED sPc
    /\ ScriptIdle

\* The load event of a script element: script.onload.
FireLoad ==
    /\ sPc = "running"
    /\ \E i \in 1..Len(page.head) :
          /\ page.head[i].state = "loaded"
          /\ page' = onSuccess([page EXCEPT !.head[i].state = "load fired"])
    /\ UNCHANGED sPc
    /\ ScriptIdle

\* The error event of a script element: script.onerror.
FireError ==
    /\ sPc = "running"
    /\ \E i \in 1..Len(page.head) :
          /\ page.head[i].state = "failed"
          /\ page' = onError([page EXCEPT !.head[i].state = "error fired"])
    /\ UNCHANGED sPc
    /\ ScriptIdle

ScriptNext ==
    \/ RunScript
    \/ FetchSucceeds
    \/ FetchFails
    \/ FireLoad
    \/ FireError

SpecScript == ScriptInit /\ [][ScriptNext]_vars

\* The browser runs the script of a parsed page, ends every fetch and runs
\* the handler of every queued event.
FairSpecScript ==
    /\ SpecScript
    /\ WF_vars(RunScript)
    /\ WF_vars(FetchSucceeds \/ FetchFails)
    /\ WF_vars(FireLoad)
    /\ WF_vars(FireError)

-----------------------------------------------------------------------------
(* ReportGenerator._generate_html (analyzers/report_generator.py 239-262). *)

\* The Markdown text _generate_markdown writes (lines 68-237).
ReportMd == <<"x", NL, F, M, NL, "x", NL, F>>

\* Path.unlink of a file that is there.
unlink(p, files) == [loc \in DOMAIN files \ {LocationOf(p)} |-> files[loc]]

\* _generate_html: [raised, exc, result, files], result being what convert
\* returned.  The intermediate Markdown file is written outside the try
\* (lines 242-243); an exception inside it becomes a RuntimeError.
generate_html(output_path, os, fault) ==
    LET md_path == with_suffix(output_path, ".md") IN
    TheValue({
        IF ~md.ok
        THEN [raised |-> TRUE, exc |-> <<"OSError">> \o md.error,
              result |-> <<>>, files |-> os.files]
        ELSE TheValue({
            IF c.raised
            THEN [raised |-> TRUE, exc |-> <<"RuntimeError">> \o c.exc,
                  result |-> <<>>, files |-> c.files]
            ELSE [raised |-> FALSE, exc |-> <<>>, result |-> c.result,
                  files |-> unlink(md_path, c.files)]
            : c \in {convert(md_path, Given(output_path), "professional", TRUE, TRUE,
                             [files |-> md.files, exists_raises |-> os.exists_raises],
                             fault)} })
        : md \in {write_text(md_path, ReportMd, os)} })

\* The report paths: in a directory that exists and in one that does not.
ReportHtml == JoinPath(OutDir, <<"report", ".html">>)
NoDirReportHtml == JoinPath(NoDir, <<"report", ".html">>)

ReportFileSystems ==
    { html @@ md @@ Entry(OutDir, Dir) :
        html \in {NoEntry, Entry(ReportHtml, OldHtml), Entry(ReportHtml, Dir)},
        md \in {NoEntry, Entry(with_suffix(ReportHtml, ".md"), File(<<"x">>)),
                Entry(with_suffix(ReportHtml, ".md"), Dir),
                Entry(with_suffix(ReportHtml, ".md"), Unreadable)} }

ReportInit ==
    /\ fs \in ReportFileSystems
    /\ existsRaises \in BOOLEAN
    /\ fs0 = fs
    /\ rCall \in [op : {"_generate_html"},
                  output_path : {ReportHtml, NoDirReportHtml}]
    /\ rRet = <<>>
    /\ mText = <<>> /\ mCall = "idle" /\ mRet = <<>>
    /\ iText = <<>> /\ iCall = "idle" /\ iRet = <<>>
    /\ cCall = <<>> /\ cPc = "idle" /\ cResults = <<>>
    /\ cRaised = <<>> /\ cHistory = <<>>
    /\ tCall = "idle" /\ tArgs = <<>> /\ tRet = <<>>
    /\ pCall = <<>> /\ pPc = "idle" /\ pFiles = <<>> /\ pIndex = 0
    /\ pTasks = <<>> /\ pYielded = {} /\ pResults = <<>> /\ pExc = <<>>
    /\ pBefore = <<>> /\ sPc = "idle" /\ page = <<>>
    /\ stats = <<>> /\ file_records = <<>> /\ tracked = <<>>
    /\ xCall = <<>> /\ xPc = "idle" /\ xIndex = 0
    /\ success_count = 0 /\ xExit = 0

\* self._generate_html(result, output_path); rRet keeps the stage of
\* convert that was made to fail.
CallGenerateHtml ==
    /\ rCall # <<>> /\ rRet = <<>>
    /\ \E fault \in Faults :
          LET r == generate_html(rCall.output_path, Os, fault) IN
          /\ rRet' = [raised |-> r.raised, exc |-> r.exc, result |-> r.result,
                      fault |-> fault]
          /\ fs' = r.files
    /\ UNCHANGED <<rCall, fs0, existsRaises, cCall, cPc, cResults, cRaised, cHistory,
                   mermaidVars, imageVars, themeVars, procVars,
                   pBefore, scriptVars, statsVars, cliVars>>

ReportNext == CallGenerateHtml

SpecReport == ReportInit /\ [][ReportNext]_vars

-----------------------------------------------------------------------------
(* StatsTracker (core/stats.py 41-107). *)

\* At most this many results are tracked between two resets.
MaxTracked == 3

\* At most this many resets of one tracker.
MaxResets == 2

\* A file size is at most this many bytes.
MaxFileSize == 2

\* ConversionStats(): the defaults of lines 18-23, start_time left out.
ConversionStats ==
    [total_files |-> 0, successful |-> 0, failed |-> 0, total_duration |-> 0,
     total_size |-> 0, total_images |-> 0]

\* A reset that makes new counters and keeps the records.
reset_counters_only(self) ==
    [stats |-> ConversionStats, file_records |-> self.file_records]

\* StatsTracker.track_result; a duration is a number of time units.
track_result(self, result, file_path) ==
    LET counted == [self.stats EXCEPT !.total_files = @ + 1]
        tallied ==
            IF result.success
            THEN [counted EXCEPT !.successful = @ + 1,
                                 !.total_size = @ + result.file_size,
                                 !.total_images = @ + result.image_count]
            ELSE [counted EXCEPT !.failed = @ + 1]
    IN  [stats |-> [tallied EXCEPT !.total_duration = @ + result.duration],
         file_records |->
             Append(self.file_records,
                    [filename |-> NameOf(file_path),
                     success |-> result.success,
                     duration |-> result.duration,
                     size |-> result.file_size,
                     images |-> result.image_count,
                     error |-> IF ~result.success THEN result.error_message
                               ELSE NoMessage])]

\* StatsTracker.reset
reset(self) == [stats |-> ConversionStats, file_records |-> <<>>]

\* The tracker of the state.
Tracker == [stats |-> stats, file_records |-> file_records]

\* The results handed to track_result: successes with a size and a count,
\* and failures, which have neither (lines 99-104 and 162-171 of convert).
TrackedResults ==
    [success : {TRUE}, output_path : {DocHtml}, file_size : 1..MaxFileSize,
     image_count : 0..MaxImageCount, duration : {1}, error_message : {NoMessage}]
    \cup [success : {FALSE}, output_path : {DocHtml}, file_size : {0},
          image_count : {0}, duration : {0, 1},
          error_message : {StageError("read")}]

\* StatsTracker(): lines 44-47.
StatsInit ==
    /\ stats = ConversionStats
    /\ file_records = <<>>
    /\ tracked = [since |-> <<>>, resets |-> 0]
    /\ fs = <<>> /\ existsRaises = FALSE
    /\ mText = <<>> /\ mCall = "idle" /\ mRet = <<>>
    /\ iText = <<>> /\ iCall = "idle" /\ iRet = <<>>
    /\ cCall = <<>> /\ cPc = "idle" /\ cResults = <<>>
    /\ cRaised = <<>> /\ cHistory = <<>> /\ fs0 = <<>>
    /\ tCall = "idle" /\ tArgs = <<>> /\ tRet = <<>>
    /\ pCall = <<>> /\ pPc = "idle" /\ pFiles = <<>> /\ pIndex = 0
    /\ pTasks = <<>> /\ pYielded = {} /\ pResults = <<>> /\ pExc = <<>>
    /\ pBefore = <<>> /\ sPc = "idle" /\ page = <<>>
    /\ rCall = <<>> /\ rRet = <<>>
    /\ xCall = <<>> /\ xPc = "idle" /\ xIndex = 0
    /\ success_count = 0 /\ xExit = 0

StatsIdle ==
    UNCHANGED <<mermaidVars, osVars, imageVars, convVars, themeVars, procVars,
                pBefore, scriptVars, reportVars, cliVars>>

\* tracker.track_result(result, file_path)
CallTrackResult ==
    /\ xPc = "idle" /\ tracked # <<>>
    /\ Len(tracked.since) < MaxTracked
    /\ \E result \in TrackedResults : \E file_path \in {DocMd, OtherDocMd} :
          LET after == track_result(Tracker, result, file_path) IN
          /\ stats' = after.stats
          /\ file_records' = after.file_records
          /\ tracked' = [tracked EXCEPT !.since = Append(@, result)]
    /\ StatsIdle

\* tracker.reset()
CallReset ==
    /\ xPc = "idle" /\ tracked # <<>>
    /\ tracked.resets < MaxResets
    /\ stats' = reset(Tracker).stats
    /\ file_records' = reset(Tracker).file_records
    /\ tracked' = [since |-> <<>>, resets |-> tracked.resets + 1]
    /\ StatsIdle

StatsNext ==
    \/ CallTrackResult
    \/ CallReset

SpecStats == StatsInit /\ [][StatsNext]_vars

-----------------------------------------------------------------------------
(* cli.run_conversion (cli.py 151-260) with a new HTMLConverter and a new
   StatsTracker; theme, image and diagram options are the defaults. *)

\* Path.is_file()
is_file(p, os) ==
    /\ LocationOf(p) \in DOMAIN os.files
    /\ os.files[LocationOf(p)].kind \in {"file", "unreadable"}

\* A Markdown file in the working directory, and the pattern that matches it.
CwdPath == [abs |-> TRUE, parts |-> Cwd]
DMd == JoinPath(CwdPath, <<"d", ".md">>)
StarMd == [pattern |-> TRUE, path |-> PathOf(<<"*", ".md">>)]

\* args.input that names a path.
Named(p) == [pattern |-> FALSE, path |-> p]

\* sorted() of a set of the sources: Path compares part by part, and
\* "a.html" < "a.md" < "c.md".
sorted(S) == SelectSeq(<<DMd, BMd, AMd, CMd>>, LAMBDA f : f \in S)

\* FileScanner.scan_markdown_files (utils/file_scanner.py 20-59)
scan_markdown_files(directory, recursive, os) ==
    IF ~path_exists(directory, os) THEN <<>>
    ELSE sorted(glob_md(directory, recursive, os))

\* lines 159-176: the files of the run, [raised, files].  Path.glob raises
\* NotImplementedError for a pattern that is an absolute path.
find_files(args, os) ==
    IF ~args.input.pattern /\ is_file(args.input.path, os)
    THEN [raised |-> FALSE, files |-> <<args.input.path>>]
    ELSE IF ~args.input.pattern /\ is_dir(LocationOf(args.input.path), os)
    THEN [raised |-> FALSE,
          files |-> scan_markdown_files(args.input.path, args.recursive, os)]
    ELSE IF args.input.path.abs
    THEN [raised |-> TRUE, files |-> <<>>]
    ELSE [raised |-> FALSE,
          files |-> IF args.input.pattern
                    THEN sorted(glob_md(CwdPath, FALSE, os))
                    ELSE <<>>]

\* lines 178-188: the output directory, NoPath for None.
cli_output_dir(args, files) ==
    IF args.output.given /\ ~(suffix(args.output.path) = ".html" /\ Len(files) = 1)
    THEN args.output
    ELSE NoPath

\* lines 213-219: the output path of one file.
cli_output_path(args, files, file_path) ==
    IF args.output.given /\ suffix(args.output.path) = ".html" /\ Len(files) = 1
    THEN args.output
    ELSE IF cli_output_dir(args, files).given
    THEN Given(JoinPath(cli_output_dir(args, files).path,
                        stem(file_path) \o <<".html">>))
    ELSE NoPath

\* A status that tells success from failure only.
exit_status_of_any(count, total) == IF count > 0 THEN 0 ELSE 1

\* lines 254-260: the status of the run.
exit_status(count, total) ==
    IF count = total THEN 0 ELSE IF count > 0 THEN 2 ELSE 1

\* The file system when run_conversion started.
CliOs0 == [files |-> fs0, exists_raises |-> existsRaises]

\* files, as found at the start of the run.
CliFiles == find_files(xCall, CliOs0).files

CliFileSystems ==
    { a @@ b @@ c @@ d @@ Entry(OutDir, Dir) @@ Entry(OutHtml, OldHtml) :
        a \in {NoEntry, Entry(AMd, File(<<"x">>)), Entry(AMd, Unreadable)},
        b \in {NoEntry, Entry(BMd, File(<<"x">>))},
        c \in {NoEntry, Entry(CMd, File(<<"x">>))},
        d \in {NoEntry, Entry(DMd, File(DiagramDoc))} }

CliInit ==
    /\ fs \in CliFileSystems
    /\ existsRaises = FALSE
    /\ fs0 = fs
    /\ xCall \in [input : {Named(AMd), Named(InDir), Named(PathOf(<<"none">>)), StarMd},
                  output : {NoPath, Given(OutHtml), Given(OutDir), Given(NoDir)},
                  recursive : BOOLEAN]
    /\ xPc = "start"
    /\ xIndex = 0
    /\ success_count = 0
    /\ xExit = 0
    /\ stats = ConversionStats
    /\ file_records = <<>>
    /\ tracked = [since |-> <<>>, resets |-> 0]
    /\ mText = <<>> /\ mCall = "idle" /\ mRet = <<>>
    /\ iText = <<>> /\ iCall = "idle" /\ iRet = <<>>
    /\ cCall = <<>> /\ cPc = "idle" /\ cResults = <<>>
    /\ cRaised = <<>> /\ cHistory = <<>>
    /\ tCall = "idle" /\ tArgs = <<>> /\ tRet = <<>>
    /\ pCall = <<>> /\ pPc = "idle" /\ pFiles = <<>> /\ pIndex = 0
    /\ pTasks = <<>> /\ pYielded = {} /\ pResults = <<>> /\ pExc = <<>>
    /\ pBefore = <<>> /\ sPc = "idle" /\ page = <<>>
    /\ rCall = <<>> /\ rRet = <<>>

CliIdle ==
    UNCHANGED <<xCall, fs0, existsRaises, cCall, cPc, cResults, cRaised, cHistory,
                mermaidVars, imageVars, themeVars, procVars, pBefore,
                scriptVars, reportVars>>

\* lines 153-188: the files are found and the output directory is made;
\* without files the status is 1.
CliStart ==
    /\ xPc = "start"
    /\ LET found == find_files(xCall, Os)
           output_dir == cli_output_dir(xCall, found.files)
           made == mkdir(output_dir.path, Os)
       IN IF found.raised
          THEN xPc' = "raised" /\ UNCHANGED <<fs, xExit>>
          ELSE IF found.files = <<>>
          THEN xPc' = "returned" /\ xExit' = 1 /\ UNCHANGED fs
          ELSE IF ~output_dir.given
          THEN xPc' = "loop" /\ UNCHANGED <<fs, xExit>>
          ELSE IF made.ok
          THEN xPc' = "loop" /\ fs' = made.files /\ UNCHANGED xExit
          ELSE xPc' = "raised" /\ UNCHANGED <<fs, xExit>>
    /\ UNCHANGED <<xIndex, success_count, statsVars>>
    /\ CliIdle

\* lines 208-246: one turn of the loop: the file is converted, the result
\* tracked and a success counted.  The duration measured is one time unit.
CliIterate ==
    /\ xPc = "loop"
    /\ xIndex < Len(CliFiles)
    /\ LET file_path == CliFiles[xIndex + 1] IN
       \E fault \in ProcFaults :
          LET r == convert(file_path, cli_output_path(xCall, CliFiles, file_path),
                           "default", TRUE, TRUE, Os, fault)
              after == track_result(Tracker,
                                    [r.result EXCEPT !.duration = 1], file_path)
          IN IF r.raised
             THEN /\ xPc' = "raised"
                  /\ UNCHANGED <<xIndex, success_count, statsVars>>
                  /\ fs' = r.files
             ELSE /\ stats' = after.stats
                  /\ file_records' = after.file_records
                  /\ tracked' = [tracked EXCEPT !.since = Append(@, r.result)]
                  /\ success_count' = success_count
                                      + (IF r.result.success THEN 1 ELSE 0)
                  /\ xIndex' = xIndex + 1
                  /\ fs' = r.files
                  /\ UNCHANGED xPc
    /\ UNCHANGED xExit
    /\ CliIdle

\* lines 248-260: the loop is over and the status is returned.
CliReturn ==
    /\ xPc = "loop"
    /\ xIndex = Len(CliFiles)
    /\ xPc' = "returned"
    /\ xExit' = exit_status(success_count, Len(CliFiles))
    /\ UNCHANGED <<fs, xIndex, success_count, statsVars>>
    /\ CliIdle

CliNext ==
    \/ CliStart
    \/ CliIterate
    \/ CliReturn

SpecCli == CliInit /\ [][CliNext]_vars

-----------------------------------------------------------------------------
(* Claims about the bootstrap script. *)

Requested == 1..Len(page.head)
Outstanding == {i \in Requested : page.head[i].state = "fetching"}
HasLoaded(i) == page.head[i].state \in {"loaded", "load fired"}
HasFailed(i) == page.head[i].state \in {"failed", "error fired"}
AllSourcesFailed ==
    /\ Len(page.head) = Len(cdns)
    /\ \A i \in Requested : HasFailed(i)

\* C21: the bootstrap script requests the sources in the order of the list:
\* the k-th request is for the k-th source, so no source is requested
\* twice; a source is requested only when the load of every source before
\* it has failed; at most one request is outstanding; and a source that
\* has loaded is the last one requested.
C21_SourcesInOrder ==
    sPc = "running" =>
        /\ Len(page.head) <= Len(cdns)
        /\ \A i \in Requested : page.head[i].src = cdns[i]
        /\ \A i \in Requested : i < Len(page.head) => page.head[i].state = "error fired"
        /\ Cardinality(Outstanding) <= 1
        /\ \A i \in Requested : HasLoaded(i) => i = Len(page.head)

\* Two sources have failed and the third has loaded.
C21_Witness ==
    /\ sPc = "running"
    /\ Len(page.head) = Len(cdns)
    /\ page.head[1].state = "error fired"
    /\ page.head[2].state = "error fired"
    /\ page.head[3].state = "load fired"
    /\ page.loaded

\* The container as the fallback should leave it: one pre element holding
\* the text the container held, and nothing else.
ShowsRawText(element) ==
    element.children = <<Node("pre", trim(element.raw), <<>>)>>

\* C22: once the fallback has run for a load failure, mermaidLoadFailed is
\* set and every diagram container holds its raw text in one preformatted
\* block; that fallback runs only when every source of the list has failed;
\* and running handleMermaidFallback again changes no container.
C22_FallbackShowsRawText ==
    /\ page # <<>> /\ page.mermaidLoadFailed =>
          /\ AllSourcesFailed
          /\ page.fallbacks # <<>>
          /\ \A i \in 1..Len(page.elements) : ShowsRawText(page.elements[i])
    /\ page # <<>> =>
          \A k \in 1..Len(page.fallbacks) :
              page.fallbacks[k].load_failed => page.fallbacks[k].failed = 1..Len(cdns)
    /\ page # <<>> /\ page.fallbacks # <<>> =>
          /\ handleMermaidFallback(page).elements = page.elements
          /\ \A i \in 1..Len(page.elements) : page.elements[i].wrapped = 1

\* C22, the parts that hold: the fallback runs once every source has failed,
\* only then, sets mermaidLoadFailed and wraps every container once.
FallbackAfterAllFailed ==
    /\ page # <<>> /\ page.mermaidLoadFailed =>
          /\ AllSourcesFailed
          /\ page.fallbacks # <<>>
          /\ \A i \in 1..Len(page.elements) :
                /\ "mermaid-fallback" \in page.elements[i].classList
                /\ page.elements[i].children[1].tag = "pre"
    /\ page # <<>> =>
          \A k \in 1..Len(page.fallbacks) :
              page.fallbacks[k].load_failed => page.fallbacks[k].failed = 1..Len(cdns)
    /\ page # <<>> /\ page.fallbacks # <<>> =>
          /\ handleMermaidFallback(page).elements = page.elements
          /\ \A i \in 1..Len(page.elements) : page.elements[i].wrapped = 1

\* C22, under FairSpecScript: when the loads of all sources have failed, the
\* fallback eventually runs.
FallbackEventuallyRuns ==
    (page # <<>> /\ AllSourcesFailed)
        ~> (page.mermaidLoadFailed /\ page.fallbacks # <<>>)

-----------------------------------------------------------------------------
(* Claims about the results of convert, checked under Spec. *)

\* The text the image stage of the call leaves.
ImageStageText ==
    IF cCall.embed_images
    THEN ImageProcessor_process(SourceText, parent(cCall.source_path), Os0).text
    ELSE SourceText

\* The image references of the source that the call has made data: URIs.
Embedded ==
    LET before == image_findall(SourceText, 1)
        after == image_findall(ImageStageText, 1)
    IN  {k \in 1..Len(before) : after[k] # before[k] /\ after[k].path[1] = "data:"}

\* C23: a result convert returns has success true exactly when its
\* error_message is None; a successful result has the size of the file at
\* its output_path as file_size and the number of images embedded as
\* image_count; a failed result has file_size 0 and image_count 0, also when
\* the image stage had embedded images before the stage that failed.
C23_ResultFields ==
    ConvertReturned =>
        /\ cResults[1].success <=> cResults[1].error_message = NoMessage
        /\ cResults[1].success =>
              /\ LocationOf(cResults[1].output_path) \in DOMAIN fs
              /\ fs[LocationOf(cResults[1].output_path)].kind = "file"
              /\ cResults[1].file_size = Len(WrittenDocument.body) + 1
              /\ cResults[1].image_count = Cardinality(Embedded)
        /\ ~cResults[1].success =>
              /\ cResults[1].file_size = 0
              /\ cResults[1].image_count = 0

\* A conversion has failed in the write stage, after the image stage had
\* embedded an image and after the destination was partly written.
C23_Witness ==
    /\ ConvertReturned
    /\ ~cResults[1].success
    /\ cCall.embed_images
    /\ cHistory[1].fault = "write_partial"
    /\ Cardinality(Embedded) = 1
    /\ LocationOf(cResults[1].output_path) \in DOMAIN fs
    /\ ~SameAt(LocationOf(cResults[1].output_path), fs0, fs)

\* A conversion that embedded an image has succeeded.
EmbeddedAndSucceeded ==
    /\ ConvertReturned
    /\ cResults[1].success
    /\ cResults[1].image_count = 1
    /\ cResults[1].file_size > 1

-----------------------------------------------------------------------------
(* Claims about the records of BatchProcessor, checked under SpecProcessor. *)

\* One call of _process_file reports the failure of the converter: when
\* convert returns a failed result, the record has success false and the
\* error_message of the result as its error.
ReportsFailure(record, source, output, fault) ==
    LET r == convert(source, Given(output), "default", TRUE, TRUE, Os, fault)
    IN  (/\ record = process_file(source, output, "default", TRUE, TRUE, Os, fault).record
         /\ ~r.raised
         /\ ~r.result.success)
        => /\ record.success = FALSE
           /\ record.error = r.result.error_message

\* C24: in every step in which _process_file makes a record, in the loop of
\* process_list or in a worker of process_directory, a failed result that
\* convert returned without raising ends as a record with success false and
\* the error_message of the converter as error, whether or not there is a
\* file at the output location.
C24_FailureReported ==
    [][/\ (pPc = "loop" /\ Len(pResults') = Len(pResults) + 1) =>
             \A fault \in ProcFaults :
                 ReportsFailure(pResults'[Len(pResults')], pFiles[pIndex + 1],
                                JoinPath(pCall.output_dir.path,
                                         NameOf(with_suffix(pFiles[pIndex + 1], ".html"))),
                                fault)
       /\ \A i \in 1..Len(pTasks) :
             (pTasks[i].state = "running" /\ pTasks'[i].state = "done") =>
                 \A fault \in ProcFaults :
                     ReportsFailure(pTasks'[i].record, pTasks[i].source,
                                    pTasks[i].output, fault)]_vars

\* What the call that has returned gave its caller: the empty list of line
\* 81 when process_directory matched no file, self.results otherwise.
Returned ==
    IF pCall.op = "process_directory" /\ pFiles = <<>> THEN <<>> ELSE pResults

\* self.results when the call started.
ResultsBefore == IF pBefore = <<>> THEN <<>> ELSE pBefore[Len(pBefore)]

\* C25: the list a call of process_directory or process_list returns holds
\* the records made in that call, one per file processed in it, and no record
\* of an earlier call on the processor.
C25_RecordsOfThisCall ==
    (pCall # <<>> /\ pPc = "returned") =>
        /\ Returned = SubSeq(pResults, Len(ResultsBefore) + 1, Len(pResults))
        /\ pCall.op = "process_directory" => Len(Returned) = Len(pTasks)

-----------------------------------------------------------------------------
(* A claim about convert_batch, checked under SpecBatch. *)

\* What the i-th conversion of the batch left at its destination.
WrittenBy(i) ==
    convert(cCall.source_paths[i],
            batch_output_path(cCall.source_paths[i], cCall.output_dir),
            cCall.theme, cCall.embed_images, cCall.process_mermaid,
            [files |-> cHistory[i].before, exists_raises |-> existsRaises],
            cHistory[i].fault).files[LocationOf(cResults[i].output_path)]

\* C26: when convert_batch with an output directory has returned, the file
\* at the output_path of every successful result holds the document that was
\* generated from the source of that result, whatever the sequence of
\* sources, two sources of one base name in different directories included.
C26_OutputOfOwnSource ==
    (/\ cCall # <<>> /\ cCall.op = "convert_batch" /\ cPc = "done"
     /\ ~cRaised.raised /\ cCall.output_dir.given) =>
        \A i \in 1..Len(cResults) :
            cResults[i].success =>
                /\ LocationOf(cResults[i].output_path) \in DOMAIN fs
                /\ fs[LocationOf(cResults[i].output_path)] = WrittenBy(i)

-----------------------------------------------------------------------------
(* A claim about ReportGenerator, checked under SpecReport. *)

\* C27: _generate_html returns normally only if the HTML report is a file at
\* output_path; when the conversion to HTML fails it raises a RuntimeError
\* and the intermediate Markdown file is still there.
C27_ReportOrRuntimeError ==
    (rCall # <<>> /\ rRet # <<>>) =>
        /\ ~rRet.raised =>
              /\ LocationOf(rCall.output_path) \in DOMAIN fs
              /\ fs[LocationOf(rCall.output_path)].kind = "file"
              /\ rRet.result.success
        /\ (rRet.result # <<>> /\ ~rRet.result.success) =>
              /\ rRet.raised
              /\ rRet.exc[1] = "RuntimeError"
              /\ LocationOf(with_suffix(rCall.output_path, ".md")) \in DOMAIN fs

-----------------------------------------------------------------------------
(* A claim about StatsTracker, checked under SpecStats. *)

\* The sum of a field over the successful results of a sequence.
RECURSIVE SumOfSuccessful(_, _)
SumOfSuccessful(results, field) ==
    IF results = <<>> THEN 0
    ELSE (IF Head(results).success THEN Head(results)[field] ELSE 0)
         + SumOfSuccessful(Tail(results), field)

\* C28: after any sequence of track_result and reset calls, total_files is
\* successful + failed and is the number of file_records; total_size and
\* total_images are the sums of file_size and image_count over the
\* successful results tracked since the last reset; and when nothing was
\* tracked since a reset every counter is 0 and file_records is empty.
C28_CountersAgree ==
    tracked # <<>> =>
        /\ stats.total_files = stats.successful + stats.failed
        /\ stats.total_files = Len(file_records)
        /\ stats.total_files = Len(tracked.since)
        /\ stats.successful =
              Cardinality({k \in 1..Len(tracked.since) : tracked.since[k].success})
        /\ stats.total_size = SumOfSuccessful(tracked.since, "file_size")
        /\ stats.total_images = SumOfSuccessful(tracked.since, "image_count")
        /\ tracked.since = <<>> =>
              /\ stats = ConversionStats
              /\ file_records = <<>>

\* A tracker was reset after results were tracked, and has since tracked a
\* success with an image and a failure.
C28_Witness ==
    /\ tracked # <<>>
    /\ tracked.resets = 1
    /\ Len(tracked.since) = 2
    /\ stats.successful = 1 /\ stats.failed = 1
    /\ stats.total_images = 1
    /\ stats.total_size = MaxFileSize

-----------------------------------------------------------------------------
(* A claim about ImageProcessor, checked under SpecImage. *)

\* C29: process is idempotent over an unchanged file system: process on the
\* text that process returned gives that text again and a count of 0, the
\* embedded references being data: URIs and the others still unresolved.
C29_ProcessIdempotent ==
    (iCall = "process" /\ ~iRet.raised) =>
        LET again == ImageProcessor_process(iRet.text, BaseDir, Os) IN
        /\ ~again.raised
        /\ again.text = iRet.text
        /\ again.count = 0

\* process has embedded one reference and left another, which is not
\* online, as it was.
C29_Witness ==
    /\ iCall = "process" /\ ~iRet.raised
    /\ iRet.count = 1
    /\ Len(RefsIn) = 2
    /\ Cardinality(Rewritten) = 1
    /\ \E k \in 1..Len(RefsIn) :
          /\ k \notin Rewritten
          /\ ~IsNetworkOrInline(RefsIn[k].path)
    /\ iRet.text # iText

-----------------------------------------------------------------------------
(* A claim about run_conversion, checked under SpecCli. *)

\* The results of the run that are successes.
Succeeded == {k \in 1..Len(tracked.since) : tracked.since[k].success}

\* C30: when run_conversion returns for a set of files that is not empty,
\* every file was attempted once, in the order of the files, whatever
\* failed before it; success_count is the number of successful results and
\* the successful counter of the tracker; and the status is 0 exactly when
\* every file succeeded, 2 exactly when some but not all did, and 1 exactly
\* when none did.
C30_ExitStatus ==
    (xCall # <<>> /\ xPc = "returned" /\ CliFiles # <<>>) =>
        /\ Len(tracked.since) = Len(CliFiles)
        /\ \A k \in 1..Len(CliFiles) :
              file_records[k].filename = NameOf(CliFiles[k])
        /\ success_count = Cardinality(Succeeded)
        /\ success_count = stats.successful
        /\ xExit = 0 <=> Cardinality(Succeeded) = Len(CliFiles)
        /\ xExit = 2 <=> (/\ Cardinality(Succeeded) > 0
                          /\ Cardinality(Succeeded) < Len(CliFiles))
        /\ xExit = 1 <=> Cardinality(Succeeded) = 0

\* A run over three files has returned 2: the first file failed, the second
\* succeeded and the third failed.
C30_Witness ==
    /\ xCall # <<>> /\ xPc = "returned"
    /\ Len(CliFiles) = 3
    /\ Len(tracked.since) = 3
    /\ ~tracked.since[1].success
    /\ tracked.since[2].success
    /\ ~tracked.since[3].success
    /\ xExit = 2

====
